---- MODULE Spec2Model ----
(***************************************************************************)
(* Model of the log-sniffer server: the cookie-identified in-memory        *)
(* session store (server/cookie-session-storage.ts) and the configuration  *)
(* endpoints that drive it (server/routes.ts).                             *)
(*                                                                         *)
(* Time is counted in ticks of 30 000 ms, so the source's 60 * 1000 ms is  *)
(* MINUTE = 2 ticks.  A handler's synchronous section reads one clock      *)
(* value (all its Date.now() calls fall into the same tick).               *)
(*                                                                         *)
(* JSON values are tagged tuples <<tag, payload>>; a string's payload is   *)
(* a sequence of characters, the character " " being white space.  An     *)
(* optional value (T | undefined, T | null) of the store is a sequence of  *)
(* length 0 or 1.                                                          *)
(***************************************************************************)
EXTENDS Integers, Sequences, FiniteSets, TLC

(***************************************************************************)
(* Bounds of the model.                                                    *)
(***************************************************************************)
\* POST requests the server receives in one run (GET requests are not counted)
MaxPosts == 2
\* clock advances in one run
MaxClockSteps == 2
\* POST /api/config requests suspended at the connectivity check at once
MaxInFlight == 2
\* audit logs MemStorage holds
MaxStored == 1

(***************************************************************************)
(* Program constants.                                                      *)
(***************************************************************************)
\* 60 * 1000 ms, in ticks
MINUTE == 2
SESSION_TIMEOUT == 30 * MINUTE
CLEANUP_INTERVAL == 5 * MINUTE
\* the expiration the routes pass to setApiConfiguration / setLlmConfiguration
ROUTE_TTL_MINUTES == 30
\* req.cookies?.[COOKIE_NAME] when the request carries no session cookie
NoCookie == 0

(***************************************************************************)
(* JSON values.                                                            *)
(***************************************************************************)
JUndefined == <<"undefined">>
JNull == <<"null">>
JStr(s) == <<"string", s>>
JNum(n) == <<"number", n>>
JBool(b) == <<"boolean", b>>

IsString(v) == v[1] = "string"

\* JavaScript truthiness: !v is ~Truthy(v)
Truthy(v) ==
  CASE v[1] = "undefined" -> FALSE
    [] v[1] = "null" -> FALSE
    [] v[1] = "string" -> v[2] # <<>>
    [] v[1] = "number" -> v[2] # 0
    [] v[1] = "boolean" -> v[2]
    [] OTHER -> TRUE

\* a || b
OrElse(a, b) == IF Truthy(a) THEN a ELSE b

RECURSIVE TrimStart(_)
TrimStart(s) ==
  IF s # <<>> /\ Head(s) = " " THEN TrimStart(Tail(s)) ELSE s

RECURSIVE TrimEnd(_)
TrimEnd(s) ==
  IF s # <<>> /\ s[Len(s)] = " " THEN TrimEnd(SubSeq(s, 1, Len(s) - 1)) ELSE s

\* String.prototype.trim on a string value
Trim(v) == JStr(TrimEnd(TrimStart(v[2])))

\* the object literal without the listed keys (rest destructuring)
Omit(obj, keys) == [f \in DOMAIN obj \ keys |-> obj[f]]

\* { ...a, ...b }: later keys win
Spread(a, b) == [f \in DOMAIN a \cup DOMAIN b |-> IF f \in DOMAIN b THEN b[f] ELSE a[f]]

\* res.json(obj): JSON.stringify drops the keys whose value is undefined
Serialize(obj) == [f \in {g \in DOMAIN obj : obj[g] # JUndefined} |-> obj[f]]

\* number | null as a JSON value
JNumOrNull(o) == IF o = <<>> THEN JNull ELSE JNum(o[1])

(***************************************************************************)
(* The session store.  A store value S is                                  *)
(*   [sessions, nextId, out]                                               *)
(* sessions: the Map of CookieSession records, nextId: the next id         *)
(* generateSessionId returns, out: the Set-Cookie operations written on    *)
(* the response so far.  Every method returns the store value extended by  *)
(* its return value (sid, ret).                                            *)
(***************************************************************************)
NewSession(id, t) ==
  [id |-> id, snykConfig |-> <<>>, llmConfig |-> <<>>, createdAt |-> t, lastAccessed |-> t]

\* Map.set
MapSet(m, k, v) == [x \in DOMAIN m \cup {k} |-> IF x = k THEN v ELSE m[x]]

\* Map.delete
MapDelete(m, k) == [x \in DOMAIN m \ {k} |-> m[x]]

\* timestamp plus 128 random bits: an id never handed out before
\* variant: the smallest id that is not a key of the map, so that the id of a
\* removed session is given out again
GenerateSessionIdReusing(S) ==
  CHOOSE n \in 1..S.nextId : n \notin DOMAIN S.sessions /\ \A m \in 1..(n - 1) : m \in DOMAIN S.sessions

GenerateSessionId(S) == S.nextId

\* the idle test of getOrCreateSessionId and cleanupExpiredSessions
IdleExpired(session, t) == t - session.lastAccessed > SESSION_TIMEOUT

\* variant: a record is expired from the instant of its expiresAt on
ConfigExpiredAtBoundary(config, t) == t >= config.expiresAt

\* the expiry test of getApiConfiguration, getLlmConfiguration, extendConfiguration
ConfigExpired(config, t) == t > config.expiresAt

CreateSession(S, t) ==
  LET sessionId == GenerateSessionId(S) IN
  [sessions |-> MapSet(S.sessions, sessionId, NewSession(sessionId, t)),
   nextId |-> S.nextId + 1,
   out |-> Append(S.out, <<"set", sessionId>>),
   sid |-> sessionId]

\* variant: a cookie value that is not a key of the map becomes the key of the
\* new session
GetOrCreateSessionIdAdopting(S, cookieIn, t) ==
  IF cookieIn # NoCookie /\ cookieIn \in DOMAIN S.sessions
  THEN IF IdleExpired(S.sessions[cookieIn], t)
       THEN CreateSession([S EXCEPT !.sessions = MapDelete(S.sessions, cookieIn)], t)
       ELSE [sessions |-> [S.sessions EXCEPT ![cookieIn].lastAccessed = t],
             nextId |-> S.nextId,
             out |-> S.out,
             sid |-> cookieIn]
  ELSE IF cookieIn # NoCookie
  THEN [sessions |-> MapSet(S.sessions, cookieIn, NewSession(cookieIn, t)),
        nextId |-> S.nextId,
        out |-> Append(S.out, <<"set", cookieIn>>),
        sid |-> cookieIn]
  ELSE CreateSession(S, t)

\* variant: no idle test, a known id is always accepted
GetOrCreateSessionIdNoIdle(S, cookieIn, t) ==
  IF cookieIn # NoCookie /\ cookieIn \in DOMAIN S.sessions
  THEN [sessions |-> [S.sessions EXCEPT ![cookieIn].lastAccessed = t],
        nextId |-> S.nextId,
        out |-> S.out,
        sid |-> cookieIn]
  ELSE CreateSession(S, t)

\* variant: rolling expiration, an access renews the session's records
GetOrCreateSessionIdRolling(S, cookieIn, t) ==
  LET Renew(rec) == IF rec = <<>> THEN rec
                    ELSE <<[rec[1] EXCEPT !.expiresAt = t + SESSION_TIMEOUT]>>
  IN
  IF cookieIn # NoCookie /\ cookieIn \in DOMAIN S.sessions
  THEN IF IdleExpired(S.sessions[cookieIn], t)
       THEN CreateSession([S EXCEPT !.sessions = MapDelete(S.sessions, cookieIn)], t)
       ELSE [sessions |-> [S.sessions EXCEPT ![cookieIn].lastAccessed = t,
                                             ![cookieIn].snykConfig = Renew(@),
                                             ![cookieIn].llmConfig = Renew(@)],
             nextId |-> S.nextId,
             out |-> S.out,
             sid |-> cookieIn]
  ELSE CreateSession(S, t)

GetOrCreateSessionId(S, cookieIn, t) ==
  IF cookieIn # NoCookie /\ cookieIn \in DOMAIN S.sessions
  THEN IF IdleExpired(S.sessions[cookieIn], t)
       THEN CreateSession([S EXCEPT !.sessions = MapDelete(S.sessions, cookieIn)], t)
       ELSE [sessions |-> [S.sessions EXCEPT ![cookieIn].lastAccessed = t],
             nextId |-> S.nextId,
             out |-> S.out,
             sid |-> cookieIn]
  ELSE CreateSession(S, t)

\* the store value a method hands on to the next call of the same request
Store(R) == [sessions |-> R.sessions, nextId |-> R.nextId, out |-> R.out]

WithRet(R, sessions, ret) ==
  [sessions |-> sessions, nextId |-> R.nextId, out |-> R.out, sid |-> R.sid, ret |-> ret]

\* variant: the set keeps the record the session already holds
SetApiConfigurationFirstWins(S, cookieIn, config, expirationMinutes, t) ==
  LET R == GetOrCreateSessionId(S, cookieIn, t)
      rec == Spread(config, [expiresAt |-> t + expirationMinutes * MINUTE])
  IN IF R.sessions[R.sid].snykConfig # <<>>
     THEN WithRet(R, R.sessions, R.sid)
     ELSE WithRet(R, [R.sessions EXCEPT ![R.sid].snykConfig = <<rec>>], R.sid)

\* variant: the set merges the new fields into the record the session holds
SetApiConfigurationMerging(S, cookieIn, config, expirationMinutes, t) ==
  LET R == GetOrCreateSessionId(S, cookieIn, t)
      held == IF R.sessions[R.sid].snykConfig = <<>> THEN config
              ELSE Spread(R.sessions[R.sid].snykConfig[1], config)
      rec == Spread(held, [expiresAt |-> t + expirationMinutes * MINUTE])
  IN WithRet(R, [R.sessions EXCEPT ![R.sid].snykConfig = <<rec>>], R.sid)

SetApiConfiguration(S, cookieIn, config, expirationMinutes, t) ==
  LET R == GetOrCreateSessionId(S, cookieIn, t)
      rec == Spread(config, [expiresAt |-> t + expirationMinutes * MINUTE])
  IN WithRet(R, [R.sessions EXCEPT ![R.sid].snykConfig = <<rec>>], R.sid)

\* variant: an expired upstream record takes the session's LLM record with it
GetApiConfigurationDroppingBoth(S, cookieIn, t) ==
  LET R == GetOrCreateSessionId(S, cookieIn, t)
      session == R.sessions[R.sid]
  IN IF session.snykConfig = <<>>
     THEN WithRet(R, R.sessions, <<>>)
     ELSE IF ConfigExpired(session.snykConfig[1], t)
          THEN WithRet(R, [R.sessions EXCEPT ![R.sid].snykConfig = <<>>,
                                             ![R.sid].llmConfig = <<>>], <<>>)
          ELSE WithRet(R, R.sessions,
                       <<[config |-> Omit(session.snykConfig[1], {"expiresAt"}),
                          sessionId |-> R.sid]>>)

\* variant: one slot for the whole store, a get is served from any session
\* that holds a record
GetApiConfigurationShared(S, cookieIn, t) ==
  LET R == GetOrCreateSessionId(S, cookieIn, t)
      holders == {id \in DOMAIN R.sessions :
                    /\ R.sessions[id].snykConfig # <<>>
                    /\ ~ConfigExpired(R.sessions[id].snykConfig[1], t)}
  IN IF holders = {}
     THEN WithRet(R, R.sessions, <<>>)
     ELSE LET id == CHOOSE x \in holders : \A y \in holders : x <= y IN
          WithRet(R, R.sessions,
                  <<[config |-> Omit(R.sessions[id].snykConfig[1], {"expiresAt"}),
                     sessionId |-> R.sid]>>)

GetApiConfiguration(S, cookieIn, t) ==
  LET R == GetOrCreateSessionId(S, cookieIn, t)
      session == R.sessions[R.sid]
  IN IF session.snykConfig = <<>>
     THEN WithRet(R, R.sessions, <<>>)
     ELSE IF ConfigExpired(session.snykConfig[1], t)
          THEN WithRet(R, [R.sessions EXCEPT ![R.sid].snykConfig = <<>>], <<>>)
          ELSE WithRet(R, R.sessions,
                       <<[config |-> Omit(session.snykConfig[1], {"expiresAt"}),
                          sessionId |-> R.sid]>>)

\* variant: Math.floor(remainingMs / (60 * 1000)) without the clamp
RemainingMinutesUnclamped(remaining) == remaining \div MINUTE

\* Math.max(0, Math.floor(remainingMs / (60 * 1000)))
RemainingMinutes(remaining) == IF remaining \div MINUTE > 0 THEN remaining \div MINUTE ELSE 0

GetTimeUntilExpiration(S, cookieIn, t) ==
  LET R == GetOrCreateSessionId(S, cookieIn, t)
      session == R.sessions[R.sid]
  IN IF session.snykConfig = <<>>
     THEN WithRet(R, R.sessions, <<>>)
     ELSE WithRet(R, R.sessions, <<RemainingMinutes(session.snykConfig[1].expiresAt - t)>>)

\* variant: the clear deletes the upstream record and keeps the session
ClearConfigurationKeepingSession(S, cookieIn, t) ==
  LET R == GetOrCreateSessionId(S, cookieIn, t)
  IN [sessions |-> [R.sessions EXCEPT ![R.sid].snykConfig = <<>>],
      nextId |-> R.nextId,
      out |-> Append(R.out, <<"clear">>),
      sid |-> R.sid,
      ret |-> <<>>]

ClearConfiguration(S, cookieIn, t) ==
  LET R == GetOrCreateSessionId(S, cookieIn, t)
      cleared == [R.sessions EXCEPT ![R.sid].snykConfig = <<>>]
  IN [sessions |-> MapDelete(cleared, R.sid),
      nextId |-> R.nextId,
      out |-> Append(R.out, <<"clear">>),
      sid |-> R.sid,
      ret |-> <<>>]

\* variant: no expiry test, an expired record is extended too
ExtendConfigurationUnchecked(S, cookieIn, additionalMinutes, t) ==
  LET R == GetOrCreateSessionId(S, cookieIn, t)
      session == R.sessions[R.sid]
  IN IF session.snykConfig = <<>>
     THEN WithRet(R, R.sessions, FALSE)
     ELSE WithRet(R,
                  [R.sessions EXCEPT ![R.sid].snykConfig =
                     <<[session.snykConfig[1] EXCEPT !.expiresAt = t + additionalMinutes * MINUTE]>>],
                  TRUE)

ExtendConfiguration(S, cookieIn, additionalMinutes, t) ==
  LET R == GetOrCreateSessionId(S, cookieIn, t)
      session == R.sessions[R.sid]
  IN IF session.snykConfig = <<>> \/ ConfigExpired(session.snykConfig[1], t)
     THEN WithRet(R, R.sessions, FALSE)
     ELSE WithRet(R,
                  [R.sessions EXCEPT ![R.sid].snykConfig =
                     <<[session.snykConfig[1] EXCEPT !.expiresAt = t + additionalMinutes * MINUTE]>>],
                  TRUE)

\* variant: the set writes a whole new record for the session
SetLlmConfigurationReplacing(S, cookieIn, config, expirationMinutes, t) ==
  LET R == GetOrCreateSessionId(S, cookieIn, t)
      rec == Spread(config, [expiresAt |-> t + expirationMinutes * MINUTE])
  IN WithRet(R, [R.sessions EXCEPT ![R.sid].llmConfig = <<rec>>,
                                   ![R.sid].snykConfig = <<>>], R.sid)

SetLlmConfiguration(S, cookieIn, config, expirationMinutes, t) ==
  LET R == GetOrCreateSessionId(S, cookieIn, t)
      rec == Spread(config, [expiresAt |-> t + expirationMinutes * MINUTE])
  IN WithRet(R, [R.sessions EXCEPT ![R.sid].llmConfig = <<rec>>], R.sid)

GetLlmConfiguration(S, cookieIn, t) ==
  LET R == GetOrCreateSessionId(S, cookieIn, t)
      session == R.sessions[R.sid]
  IN IF session.llmConfig = <<>>
     THEN WithRet(R, R.sessions, <<>>)
     ELSE IF ConfigExpired(session.llmConfig[1], t)
          THEN WithRet(R, [R.sessions EXCEPT ![R.sid].llmConfig = <<>>], <<>>)
          ELSE WithRet(R, R.sessions,
                       <<[config |-> Omit(session.llmConfig[1], {"expiresAt"}),
                          sessionId |-> R.sid]>>)

\* variant: the clear of the LLM record takes the upstream record with it
ClearLlmConfigurationClearingBoth(S, cookieIn, t) ==
  LET R == GetOrCreateSessionId(S, cookieIn, t)
  IN WithRet(R, [R.sessions EXCEPT ![R.sid].llmConfig = <<>>,
                                   ![R.sid].snykConfig = <<>>], <<>>)

ClearLlmConfiguration(S, cookieIn, t) ==
  LET R == GetOrCreateSessionId(S, cookieIn, t)
  IN WithRet(R, [R.sessions EXCEPT ![R.sid].llmConfig = <<>>], <<>>)

\* the keys of the Map in the order entries() yields them, the order of
\* insertion: ids are handed out in increasing order and no key is set again
\* after its delete
RECURSIVE KeysInOrder(_)
KeysInOrder(m) ==
  IF DOMAIN m = {} THEN <<>>
  ELSE LET k == CHOOSE x \in DOMAIN m : \A y \in DOMAIN m : x <= y
       IN <<k>> \o KeysInOrder(MapDelete(m, k))

RemoveAt(s, i) == [j \in 1..(Len(s) - 1) |-> IF j < i THEN s[j] ELSE s[j + 1]]

\* variant: the traversal of an index loop over a list that shrinks under it,
\* which steps over the entry that follows a deleted one
RECURSIVE SweepFromSkipping(_, _, _, _)
SweepFromSkipping(m, keys, i, t) ==
  IF i > Len(keys) THEN m
  ELSE IF IdleExpired(m[keys[i]], t)
       THEN SweepFromSkipping(MapDelete(m, keys[i]), RemoveAt(keys, i), i + 1, t)
       ELSE SweepFromSkipping(m, keys, i + 1, t)

\* the for..of of cleanupExpiredSessions from the i-th of the entries left:
\* after a delete the Map iterator goes on with the entry that followed the
\* deleted one
RECURSIVE SweepFrom(_, _, _, _)
SweepFrom(m, keys, i, t) ==
  IF i > Len(keys) THEN m
  ELSE IF IdleExpired(m[keys[i]], t)
       THEN SweepFrom(MapDelete(m, keys[i]), RemoveAt(keys, i), i, t)
       ELSE SweepFrom(m, keys, i + 1, t)

\* the Map as the sweep leaves it
\* variant: the sweep spares the sessions that hold an upstream configuration
CleanupExpiredSessionsSparingConfigured(sessions, t) ==
  LET swept == SweepFrom(sessions, KeysInOrder(sessions), 1, t) IN
  [id \in DOMAIN swept \cup {x \in DOMAIN sessions : sessions[x].snykConfig # <<>>} |->
     sessions[id]]

CleanupExpiredSessions(sessions, t) == SweepFrom(sessions, KeysInOrder(sessions), 1, t)

(***************************************************************************)
(* Request inputs.                                                         *)
(***************************************************************************)
\* the clients that hold a cookie jar, and the ones that send requests
AllClients == {"c1", "c2"}
Clients == {"c1"}

TOKEN_A == JStr(<<"tokA">>)
MASK == JStr(<<"***">>)
DEFAULT_API_VERSION == JStr(<<"2024-10-15">>)

\* bodies of POST /api/config: one the handler accepts, two without a token
ApiBodies ==
  { [snykApiToken |-> TOKEN_A, groupId |-> JStr(<<"g1">>), orgId |-> JUndefined,
     apiVersion |-> JUndefined],
    [snykApiToken |-> JUndefined, groupId |-> JStr(<<"g1">>), orgId |-> JUndefined,
     apiVersion |-> JUndefined],
    [snykApiToken |-> JStr(<<>>), groupId |-> JUndefined, orgId |-> JStr(<<"o1">>),
     apiVersion |-> JUndefined] }

KEY_1 == JStr(<<"sk-1">>)
KEY_2 == JStr(<<" ", "sk-2">>)

\* bodies of POST /api/llm-config
LlmBodies ==
  { [provider |-> JStr(<<" ", "openai">>), model |-> JStr(<<"gpt">>), apiKey |-> KEY_1,
     baseUrl |-> JUndefined],
    [provider |-> JStr(<<"gemini">>), model |-> JStr(<<"pro", " ">>), apiKey |-> KEY_2,
     baseUrl |-> JStr(<<" ">>)],
    [provider |-> JStr(<<"openai">>), model |-> JStr(<<"gpt">>), apiKey |-> JUndefined,
     baseUrl |-> JUndefined],
    [provider |-> JNum(7), model |-> JStr(<<"gpt">>), apiKey |-> KEY_1,
     baseUrl |-> JStr(<<"http://x">>)] }

\* what SnykApiClient.testConnection resolves to: success, the message of the
\* SnykApiError the upstream request raised, or the message for any other error
TestConnectionResults ==
  { [success |-> TRUE, message |-> "Connection successful"],
    [success |-> FALSE, message |-> "Unauthorized"],
    [success |-> FALSE, message |-> "Failed to connect to Snyk API"] }

\* req.body.minutes of POST /api/config/extend: absent, or a number
ExtendInputs == { <<>>, <<1>>, <<-1>> }

\* the steps the clock takes: one tick, or a whole idle timeout
ClockStepSizes == { 1, SESSION_TIMEOUT }

\* a session id in a response body (a string, kept apart from the other strings)
JId(id) == <<"sessionId", id>>

(***************************************************************************)
(* Route handlers.  A handler maps the store and the request to            *)
(*   [sessions, nextId, out, status, body, sids]                           *)
(* body: the JSON body, <<>> for null; sids: the session id each store     *)
(* call of the request resolved to, in call order.                         *)
(***************************************************************************)
Reply(S, status, body, sids) ==
  [sessions |-> S.sessions, nextId |-> S.nextId, out |-> S.out,
   status |-> status, body |-> body, sids |-> sids]

ErrorBody(msg) == <<[error |-> JStr(<<msg>>)]>>

\* variant: the stored configuration is spread last, over the mask
GetConfigRouteUnmasked(S, cookieIn, t) ==
  LET R1 == GetApiConfiguration(S, cookieIn, t) IN
  IF R1.ret = <<>>
  THEN Reply(R1, 200, <<>>, <<R1.sid>>)
  ELSE LET config == R1.ret[1].config
           R2 == GetTimeUntilExpiration(Store(R1), cookieIn, t)
       IN Reply(R2, 200,
                <<Serialize(Spread([snykApiToken |-> MASK,
                                    expiresInMinutes |-> JNumOrNull(R2.ret),
                                    sessionId |-> JId(R1.ret[1].sessionId)],
                                   config))>>,
                <<R1.sid, R2.sid>>)

\* GET /api/config
GetConfigRoute(S, cookieIn, t) ==
  LET R1 == GetApiConfiguration(S, cookieIn, t) IN
  IF R1.ret = <<>>
  THEN Reply(R1, 200, <<>>, <<R1.sid>>)
  ELSE LET config == R1.ret[1].config
           safeConfig == Omit(config, {"snykApiToken"})
           R2 == GetTimeUntilExpiration(Store(R1), cookieIn, t)
       IN Reply(R2, 200,
                <<Serialize(Spread(safeConfig,
                                   [snykApiToken |-> MASK,
                                    expiresInMinutes |-> JNumOrNull(R2.ret),
                                    sessionId |-> JId(R1.ret[1].sessionId)]))>>,
                <<R1.sid, R2.sid>>)

\* POST /api/config up to the await of testConnection: TRUE when the request goes on
PostConfigAccepted(body) == Truthy(body.snykApiToken)

\* variant: the configuration is stored before the check's outcome is looked at
PostConfigRouteStoringFirst(S, cookieIn, body, result, t) ==
  LET config == [snykApiToken |-> body.snykApiToken,
                 groupId |-> body.groupId,
                 orgId |-> body.orgId,
                 apiVersion |-> OrElse(body.apiVersion, DEFAULT_API_VERSION)]
      R1 == SetApiConfiguration(S, cookieIn, config, ROUTE_TTL_MINUTES, t)
      R2 == GetTimeUntilExpiration(Store(R1), cookieIn, t)
  IN IF ~result.success
     THEN Reply(R2, 400, ErrorBody(result.message), <<>>)
     ELSE Reply(R2, 200,
                <<Serialize([groupId |-> body.groupId,
                             orgId |-> body.orgId,
                             apiVersion |-> config.apiVersion,
                             snykApiToken |-> MASK,
                             expiresInMinutes |-> JNumOrNull(R2.ret),
                             sessionId |-> JId(R1.ret)])>>,
                <<R1.sid, R2.sid>>)

\* POST /api/config after testConnection resolved to result
PostConfigRoute(S, cookieIn, body, result, t) ==
  IF ~result.success
  THEN Reply(S, 400, ErrorBody(result.message), <<>>)
  ELSE LET config == [snykApiToken |-> body.snykApiToken,
                      groupId |-> body.groupId,
                      orgId |-> body.orgId,
                      apiVersion |-> OrElse(body.apiVersion, DEFAULT_API_VERSION)]
           R1 == SetApiConfiguration(S, cookieIn, config, ROUTE_TTL_MINUTES, t)
           R2 == GetTimeUntilExpiration(Store(R1), cookieIn, t)
       IN Reply(R2, 200,
                <<Serialize([groupId |-> body.groupId,
                             orgId |-> body.orgId,
                             apiVersion |-> config.apiVersion,
                             snykApiToken |-> MASK,
                             expiresInMinutes |-> JNumOrNull(R2.ret),
                             sessionId |-> JId(R1.ret)])>>,
                <<R1.sid, R2.sid>>)

\* POST /api/config/clear
ClearConfigRoute(S, cookieIn, t) ==
  LET R == ClearConfiguration(S, cookieIn, t) IN
  Reply(R, 200, <<[message |-> JStr(<<"Configuration cleared successfully">>)]>>, <<R.sid>>)

\* POST /api/config/extend; minutes is <<>> when the body has none
ExtendConfigRoute(S, cookieIn, minutes, t) ==
  LET m == IF minutes = <<>> THEN 30 ELSE minutes[1]
      R1 == ExtendConfiguration(S, cookieIn, m, t)
  IN IF ~R1.ret
     THEN Reply(R1, 400, ErrorBody("No valid configuration to extend"), <<R1.sid>>)
     ELSE LET R2 == GetTimeUntilExpiration(Store(R1), cookieIn, t) IN
          Reply(R2, 200,
                <<[message |-> JStr(<<"Configuration extended successfully">>),
                   expiresInMinutes |-> JNumOrNull(R2.ret)]>>,
                <<R1.sid, R2.sid>>)

\* GET /api/llm-config
GetLlmConfigRoute(S, cookieIn, t) ==
  LET R == GetLlmConfiguration(S, cookieIn, t) IN
  IF R.ret = <<>>
  THEN Reply(R, 200, <<>>, <<R.sid>>)
  ELSE Reply(R, 200,
             <<Serialize([provider |-> R.ret[1].config.provider,
                          model |-> R.ret[1].config.model,
                          configured |-> JBool(TRUE)])>>,
             <<R.sid>>)

LlmBodyValid(body) ==
  /\ Truthy(body.provider) /\ IsString(body.provider)
  /\ Truthy(body.model) /\ IsString(body.model)
  /\ Truthy(body.apiKey) /\ IsString(body.apiKey)

\* POST /api/llm-config storing the fields as submitted
PostLlmConfigRouteUntrimmed(S, cookieIn, body, t) ==
  IF ~LlmBodyValid(body)
  THEN Reply(S, 400, ErrorBody("provider, model, and apiKey are required"), <<>>)
  ELSE LET config == [provider |-> body.provider, model |-> body.model,
                      apiKey |-> body.apiKey, baseUrl |-> JUndefined]
           R == SetLlmConfiguration(S, cookieIn, config, ROUTE_TTL_MINUTES, t)
       IN Reply(R, 200,
                <<Serialize([provider |-> Trim(body.provider),
                             model |-> Trim(body.model),
                             configured |-> JBool(TRUE)])>>,
                <<R.sid>>)

\* POST /api/llm-config
PostLlmConfigRoute(S, cookieIn, body, t) ==
  IF ~LlmBodyValid(body)
  THEN Reply(S, 400, ErrorBody("provider, model, and apiKey are required"), <<>>)
  ELSE LET config == [provider |-> Trim(body.provider),
                      model |-> Trim(body.model),
                      apiKey |-> Trim(body.apiKey),
                      baseUrl |-> IF Truthy(body.baseUrl) /\ IsString(body.baseUrl)
                                  THEN OrElse(Trim(body.baseUrl), JUndefined)
                                  ELSE JUndefined]
           R == SetLlmConfiguration(S, cookieIn, config, ROUTE_TTL_MINUTES, t)
       IN Reply(R, 200,
                <<Serialize([provider |-> Trim(body.provider),
                             model |-> Trim(body.model),
                             configured |-> JBool(TRUE)])>>,
                <<R.sid>>)

\* POST /api/llm-config/clear
ClearLlmConfigRoute(S, cookieIn, t) ==
  LET R == ClearLlmConfiguration(S, cookieIn, t) IN
  Reply(R, 200, <<[message |-> JStr(<<"LLM configuration cleared successfully">>)]>>, <<R.sid>>)

(***************************************************************************)
(* The LLM layer: the provider router (services/llm/index.ts), the         *)
(* provider adapters and the orchestrator (services/llm-service.ts).       *)
(* Strings the router inspects are sequences of characters; message        *)
(* contents, provider texts and error messages are strings.  A value of a  *)
(* provider's JSON that may be missing is JUndefined, JNull or JText(s).   *)
(***************************************************************************)
UPPER ==
  <<"A", "B", "C", "D", "E", "F", "G", "H", "I", "J", "K", "L", "M",
    "N", "O", "P", "Q", "R", "S", "T", "U", "V", "W", "X", "Y", "Z">>

LOWER ==
  <<"a", "b", "c", "d", "e", "f", "g", "h", "i", "j", "k", "l", "m",
    "n", "o", "p", "q", "r", "s", "t", "u", "v", "w", "x", "y", "z">>

LowerChar(ch) ==
  IF \E i \in 1..Len(UPPER) : UPPER[i] = ch
  THEN LOWER[CHOOSE i \in 1..Len(UPPER) : UPPER[i] = ch]
  ELSE ch

\* String.prototype.toLowerCase
ToLowerCase(s) == [i \in 1..Len(s) |-> LowerChar(s[i])]

\* !s?.trim() on a string
Blank(s) == TrimEnd(TrimStart(s)) = <<>>

STR_GEMINI == <<"g", "e", "m", "i", "n", "i">>
STR_GOOGLE == <<"g", "o", "o", "g", "l", "e">>
STR_GOOGLE_GEMINI == STR_GOOGLE \o <<" ">> \o STR_GEMINI
STR_OPENAI == <<"o", "p", "e", "n", "a", "i">>
STR_CUSTOM == <<"c", "u", "s", "t", "o", "m">>
STR_ANTHROPIC == <<"a", "n", "t", "h", "r", "o", "p", "i", "c">>
STR_CLAUDE == <<"c", "l", "a", "u", "d", "e">>

UNCONFIGURED_MESSAGE ==
  "AI is not configured. Please configure an AI provider (provider, model, and API key) in the settings."

\* getProvider testing the required fields for emptiness only
GetProviderNoTrim(config) ==
  IF \/ config = <<>>
     \/ config[1].provider = <<>>
     \/ config[1].model = <<>>
     \/ config[1].apiKey = <<>>
  THEN "noop"
  ELSE LET provider == ToLowerCase(config[1].provider) IN
       IF provider = STR_GEMINI \/ provider = STR_GOOGLE \/ provider = STR_GOOGLE_GEMINI
       THEN "gemini"
       ELSE IF provider = STR_OPENAI \/ provider = STR_CUSTOM
            THEN "openai"
            ELSE IF provider = STR_ANTHROPIC \/ provider = STR_CLAUDE
                 THEN "anthropic"
                 ELSE "noop"

\* getProvider comparing the provider name as given
GetProviderCaseSensitive(config) ==
  IF \/ config = <<>>
     \/ Blank(config[1].provider)
     \/ Blank(config[1].model)
     \/ Blank(config[1].apiKey)
  THEN "noop"
  ELSE LET provider == config[1].provider IN
       IF provider = STR_GEMINI \/ provider = STR_GOOGLE \/ provider = STR_GOOGLE_GEMINI
       THEN "gemini"
       ELSE IF provider = STR_OPENAI \/ provider = STR_CUSTOM
            THEN "openai"
            ELSE IF provider = STR_ANTHROPIC \/ provider = STR_CLAUDE
                 THEN "anthropic"
                 ELSE "noop"

\* getProvider taking an unrecognized provider name for an OpenAI-compatible one
GetProviderDefaulting(config) ==
  IF \/ config = <<>>
     \/ Blank(config[1].provider)
     \/ Blank(config[1].model)
     \/ Blank(config[1].apiKey)
  THEN "noop"
  ELSE LET provider == ToLowerCase(config[1].provider) IN
       IF provider = STR_GEMINI \/ provider = STR_GOOGLE \/ provider = STR_GOOGLE_GEMINI
       THEN "gemini"
       ELSE IF provider = STR_ANTHROPIC \/ provider = STR_CLAUDE
            THEN "anthropic"
            ELSE "openai"

\* getProvider: the adapter it returns; config is <<>> for null
GetProvider(config) ==
  IF \/ config = <<>>
     \/ Blank(config[1].provider)
     \/ Blank(config[1].model)
     \/ Blank(config[1].apiKey)
  THEN "noop"
  ELSE LET provider == ToLowerCase(config[1].provider) IN
       IF provider = STR_GEMINI \/ provider = STR_GOOGLE \/ provider = STR_GOOGLE_GEMINI
       THEN "gemini"
       ELSE IF provider = STR_OPENAI \/ provider = STR_CUSTOM
            THEN "openai"
            ELSE IF provider = STR_ANTHROPIC \/ provider = STR_CLAUDE
                 THEN "anthropic"
                 ELSE "noop"

JText(s) == <<"string", s>>

\* v != null
NotNullish(v) == v[1] # "undefined" /\ v[1] # "null"

\* a string value that is not empty: if (v)
TruthyText(v) == v[1] = "string" /\ v[2] # ""

\* v ?? d, v an optional value
Coalesce(v, d) == IF v = <<>> THEN d ELSE v[1]

\* the options record generateText sends on: options?.x ?? default
DEFAULT_MAX_OUTPUT_TOKENS == 4096

Roles == {"user", "assistant", "system"}

\* options?.field ?? default; options is <<>> when the caller passes none
OptionOr(options, field, default) ==
  IF options = <<>> THEN default ELSE Coalesce(options[1][field], default)

\* createGeminiProvider.generateText: the argument of ai.models.generateContent
GeminiRequest(config, messages, options) ==
  LET contents == [i \in 1..Len(messages) |->
                     [role |-> IF messages[i].role = "assistant" THEN "model" ELSE "user",
                      content |-> messages[i].content]]
  IN [adapter |-> "gemini",
      url |-> <<>>,
      model |-> config.model,
      apiKey |-> config.apiKey,
      system |-> <<>>,
      messages |-> IF Len(contents) = 0
                   THEN <<[role |-> "user", content |-> ""]>>
                   ELSE contents,
      maxTokens |-> OptionOr(options, "maxOutputTokens", DEFAULT_MAX_OUTPUT_TOKENS)]

OpenAiRole(role) == IF role = "model" THEN "assistant" ELSE role

\* config.baseUrl?.replace(/\/$/, "") || "https://api.openai.com/v1"
OpenAiBaseUrl(config) ==
  LET given == IF config.baseUrl = <<>> THEN <<>> ELSE config.baseUrl[1]
      stripped == IF given # <<>> /\ given[Len(given)] = "/"
                  THEN SubSeq(given, 1, Len(given) - 1)
                  ELSE given
  IN IF stripped = <<>> THEN <<"https://api.openai.com/v1">> ELSE stripped

\* createOpenAIProvider.generateText: the request it passes to fetch
OpenAiRequest(config, messages, options) ==
  [adapter |-> "openai",
   url |-> OpenAiBaseUrl(config) \o <<"/chat/completions">>,
   model |-> config.model,
   apiKey |-> config.apiKey,
   system |-> <<>>,
   messages |-> [i \in 1..Len(messages) |->
                   [role |-> OpenAiRole(messages[i].role), content |-> messages[i].content]],
   maxTokens |-> OptionOr(options, "maxOutputTokens", DEFAULT_MAX_OUTPUT_TOKENS)]

\* the loop of createAnthropicProvider.generateText over messages[1..n]:
\* system holds the content of the last system message, <<>> for undefined
RECURSIVE AnthropicSplit(_, _, _)
AnthropicSplit(messages, system, apiMessages) ==
  IF messages = <<>>
  THEN [system |-> system, apiMessages |-> apiMessages]
  ELSE LET m == Head(messages) IN
       IF m.role = "system"
       THEN AnthropicSplit(Tail(messages), <<m.content>>, apiMessages)
       ELSE AnthropicSplit(Tail(messages), system,
                           Append(apiMessages,
                                  [role |-> IF m.role = "assistant" THEN "assistant" ELSE "user",
                                   content |-> m.content]))

\* createAnthropicProvider.generateText: the request it passes to fetch
AnthropicRequest(config, messages, options) ==
  LET split == AnthropicSplit(messages, <<>>, <<>>) IN
  [adapter |-> "anthropic",
   url |-> <<"https://api.anthropic.com/v1/messages">>,
   model |-> config.model,
   apiKey |-> config.apiKey,
   system |-> IF split.system # <<>> /\ split.system[1] # "" THEN split.system ELSE <<>>,
   messages |-> split.apiMessages,
   maxTokens |-> OptionOr(options, "maxOutputTokens", DEFAULT_MAX_OUTPUT_TOKENS)]

AdapterRequest(adapter, config, messages, options) ==
  CASE adapter = "gemini" -> GeminiRequest(config, messages, options)
    [] adapter = "openai" -> OpenAiRequest(config, messages, options)
    [] adapter = "anthropic" -> AnthropicRequest(config, messages, options)

\* what generateText settles to: the string it resolves to, or the message of
\* the error it rejects with
Ok(text) == [ok |-> TRUE, text |-> text, message |-> ""]
Fail(message) == [ok |-> FALSE, text |-> "", message |-> message]

\* messages of errors raised by the runtime rather than by the adapters
FETCH_FAILED == "fetch failed"
JSON_SYNTAX_ERROR == "Unexpected token < in JSON at position 0"
NULL_TYPE_ERROR == "Cannot read properties of null"

\* err?.error?.message of (await res.json().catch(() => ({})))
ErrorMessageOf(json) ==
  IF json[1] # "object" THEN JUndefined
  ELSE IF json[2].error = <<>> THEN JUndefined
       ELSE json[2].error[1].message

\* the throw of an adapter on !res.ok without the fallback message
HttpErrorBodyOnly(name, res) ==
  LET m == ErrorMessageOf(res.json) IN
  Fail(IF m[1] = "string" THEN m[2] ELSE "")

\* the throw of an adapter on !res.ok
HttpError(name, res) ==
  LET m == ErrorMessageOf(res.json) IN
  Fail(IF TruthyText(m) THEN m[2] ELSE name \o " API error: " \o ToString(res.status))

\* data.choices?.[0]?.message?.content
OpenAiContent(data) ==
  IF data.choices = <<>> THEN JUndefined
  ELSE IF data.choices[1] = <<>> THEN JUndefined
       ELSE IF data.choices[1][1].message = <<>> THEN JUndefined
            ELSE data.choices[1][1].message[1].content

\* createOpenAIProvider.generateText from the settled fetch on
OpenAiResult(outcome) ==
  IF outcome.kind = "reject" THEN Fail(outcome.message)
  ELSE IF ~outcome.ok THEN HttpError("OpenAI", outcome)
  ELSE IF outcome.json[1] = "invalid" THEN Fail(JSON_SYNTAX_ERROR)
  ELSE IF outcome.json[1] = "null" THEN Fail(NULL_TYPE_ERROR)
  ELSE LET text == OpenAiContent(outcome.json[2]) IN
       IF NotNullish(text) THEN Ok(text[2]) ELSE Fail("No content in OpenAI response")

\* data.content?.find((b) => b.type === "text")?.text
AnthropicText(data) ==
  IF data.content = <<>> THEN JUndefined
  ELSE LET blocks == SelectSeq(data.content[1], LAMBDA b : b.type = "text") IN
       IF blocks = <<>> THEN JUndefined ELSE blocks[1].text

\* createAnthropicProvider.generateText from the settled fetch on
AnthropicResult(outcome) ==
  IF outcome.kind = "reject" THEN Fail(outcome.message)
  ELSE IF ~outcome.ok THEN HttpError("Anthropic", outcome)
  ELSE IF outcome.json[1] = "invalid" THEN Fail(JSON_SYNTAX_ERROR)
  ELSE IF outcome.json[1] = "null" THEN Fail(NULL_TYPE_ERROR)
  ELSE LET text == AnthropicText(outcome.json[2]) IN
       IF NotNullish(text) THEN Ok(text[2]) ELSE Fail("No text in Anthropic response")

\* response.candidates?.[0]?.content?.parts?.[0]?.text
GeminiCandidateText(response) ==
  IF response.candidates = <<>> THEN JUndefined
  ELSE IF response.candidates[1] = <<>> THEN JUndefined
  ELSE LET candidate == response.candidates[1][1] IN
       IF candidate.content = <<>> THEN JUndefined
       ELSE IF candidate.content[1].parts = <<>> THEN JUndefined
       ELSE IF candidate.content[1].parts[1] = <<>> THEN JUndefined
       ELSE candidate.content[1].parts[1][1].text

\* createGeminiProvider.generateText from the settled generateContent on
GeminiResult(outcome) ==
  IF outcome.kind = "reject" THEN Fail(outcome.message)
  ELSE IF TruthyText(outcome.text) THEN Ok(outcome.text[2])
  ELSE LET text == GeminiCandidateText(outcome) IN
       IF TruthyText(text) THEN Ok(text[2]) ELSE Fail("No text in Gemini response")

AdapterResult(adapter, outcome) ==
  CASE adapter = "gemini" -> GeminiResult(outcome)
    [] adapter = "openai" -> OpenAiResult(outcome)
    [] adapter = "anthropic" -> AnthropicResult(outcome)

(***************************************************************************)
(* The orchestrator.  An audit-log record is                               *)
(*   [event, created, user_email, user_id]                                 *)
(* created: <<t>> for the instant t, <<>> for a string new Date() cannot   *)
(* read; user_email, user_id: fields of log.content, <<>> when missing.    *)
(***************************************************************************)
\* 24 * 60 * 60 * 1000 ms, in ticks
DAY == 24 * 60 * MINUTE

SUMMARY_LIMIT == 200
TOP_EVENTS == 5
INSIGHTS_LIMIT == 100
CHAT_LIMIT == 50

NO_RECENT_LOGS ==
  "No recent audit logs found in the last 24 hours. Please check if your Snyk organization has recent activity."

CHAT_FALLBACK == "I apologize, but I couldn't process your request at this time."

\* the options generateExecutiveSummary passes to generateText
SUMMARY_OPTIONS == <<[maxOutputTokens |-> <<4096>>]>>

\* Array.prototype.slice(0, n)
Slice(seq, n) == SubSeq(seq, 1, IF Len(seq) < n THEN Len(seq) ELSE n)

\* new Date(log.created) >= oneDayAgo: false for an Invalid Date
IsRecent(log, t) == log.created # <<>> /\ log.created[1] >= t - DAY

\* content?.user_email || content?.user_id || "Unknown"
UserOf(log) ==
  IF log.user_email # <<>> /\ log.user_email[1] # "" THEN log.user_email[1]
  ELSE IF log.user_id # <<>> /\ log.user_id[1] # "" THEN log.user_id[1]
  ELSE "Unknown"

\* JSON.stringify of the { event, created, content } records
RECURSIVE StringifyLogs(_)
StringifyLogs(logs) ==
  IF logs = <<>> THEN ""
  ELSE "{event:" \o Head(logs).event
       \o ",created:" \o (IF Head(logs).created = <<>> THEN "?" ELSE ToString(Head(logs).created[1]))
       \o ",user:" \o UserOf(Head(logs)) \o "}"
       \o StringifyLogs(Tail(logs))

\* the numbers of a set, smallest first
RECURSIVE Ascending(_)
Ascending(numbers) ==
  IF numbers = {} THEN <<>>
  ELSE LET least == CHOOSE x \in numbers : \A y \in numbers : x <= y
       IN <<least>> \o Ascending(numbers \ {least})

\* Object.entries of logSummary.reduce((acc, log) => { acc[log.event] =
\* (acc[log.event] || 0) + 1; return acc }, {}): one entry per event, in the
\* order the events were first seen, with the number of records of the event
EventSummary(logSummary) ==
  LET firstSeen == {i \in 1..Len(logSummary) :
                     \A j \in 1..(i - 1) : logSummary[j].event # logSummary[i].event}
      order == Ascending(firstSeen)
  IN [k \in 1..Len(order) |->
        [event |-> logSummary[order[k]].event,
         count |-> Cardinality({i \in 1..Len(logSummary) :
                                  logSummary[i].event = logSummary[order[k]].event})]]

\* the entry goes behind every entry that counts at least as much
InsertByCount(sorted, entry) ==
  LET k == Cardinality({i \in 1..Len(sorted) : sorted[i].count >= entry.count})
  IN SubSeq(sorted, 1, k) \o <<entry>> \o SubSeq(sorted, k + 1, Len(sorted))

\* .sort(([, a], [, b]) => b - a), a stable sort
RECURSIVE SortByCount(_)
SortByCount(entries) ==
  IF entries = <<>> THEN <<>>
  ELSE InsertByCount(SortByCount(SubSeq(entries, 1, Len(entries) - 1)), entries[Len(entries)])

\* variant: the first entries as they come, not sorted
TopEventsUnsorted(eventSummary) == Slice(eventSummary, TOP_EVENTS)

\* Object.entries(eventSummary).sort(...).slice(0, 5)
TopEvents(eventSummary) == Slice(SortByCount(eventSummary), TOP_EVENTS)

\* .map(([event, count]) => `${event}: ${count}`).join(", ")
RECURSIVE JoinEvents(_)
JoinEvents(entries) ==
  IF entries = <<>> THEN ""
  ELSE Head(entries).event \o ": " \o ToString(Head(entries).count)
       \o (IF Tail(entries) = <<>> THEN "" ELSE ", " \o JoinEvents(Tail(entries)))

\* new Set(logSummary.map(...)).size
UniqueUsers(logSummary) == Cardinality({UserOf(logSummary[i]) : i \in 1..Len(logSummary)})

\* the lines of the prompt that carry the statistics
SummaryPrompt(events, users, topEvents) ==
  "Create a comprehensive executive security summary. Event Data: "
  \o ToString(events) \o " events, " \o ToString(users) \o " users"
  \o " Top Events: " \o JoinEvents(topEvents)

\* generateExecutiveSummary calling the provider whatever the records
SummaryStartAlwaysCalling(auditLogs, t) ==
  LET recentLogs == SelectSeq(auditLogs, LAMBDA log : IsRecent(log, t))
      logSummary == Slice(recentLogs, SUMMARY_LIMIT)
      prompt == SummaryPrompt(Len(logSummary), UniqueUsers(logSummary),
                              TopEvents(EventSummary(logSummary)))
  IN [returns |-> <<>>,
      messages |-> <<[role |-> "user", content |-> prompt]>>,
      options |-> SUMMARY_OPTIONS]

\* generateExecutiveSummary up to getProvider: the string it returns at once,
\* or the messages and options it passes to generateText
SummaryStart(auditLogs, t) ==
  LET recentLogs == SelectSeq(auditLogs, LAMBDA log : IsRecent(log, t))
      logSummary == Slice(recentLogs, SUMMARY_LIMIT)
      prompt == SummaryPrompt(Len(logSummary), UniqueUsers(logSummary),
                              TopEvents(EventSummary(logSummary)))
  IN IF Len(recentLogs) = 0
     THEN [returns |-> <<NO_RECENT_LOGS>>, messages |-> <<>>, options |-> <<>>]
     ELSE [returns |-> <<>>,
           messages |-> <<[role |-> "user", content |-> prompt]>>,
           options |-> SUMMARY_OPTIONS]

\* generateExecutiveSummary from the settled generateText on
SummaryFinish(r) ==
  IF r.ok THEN JText(r.text) ELSE JText("Summary generation error: " \o r.message)

\* analyzeAuditLogs up to getProvider
InsightsStart(auditLogs) ==
  LET logSummary == Slice(auditLogs, INSIGHTS_LIMIT)
      prompt == "Analyze these Snyk audit logs and provide security insights: "
                \o StringifyLogs(logSummary) \o " Format as a JSON array of string insights."
  IN [returns |-> <<>>,
      messages |-> <<[role |-> "user", content |-> prompt]>>,
      options |-> <<>>]

\* JSON.parse of the texts a provider answers with in this model: the parsed
\* value, or <<"SyntaxError">>
JsonParse(text) ==
  CASE text = "[\"a\",\"b\"]" -> <<"array", <<JText("a"), JText("b")>>>>
    [] text = "[]" -> <<"array", <<>>>>
    [] text = "[1,{\"k\":2}]" -> <<"array", <<JNum(1), <<"object">>>>>>
    [] text = "{\"insights\":[]}" -> <<"object">>
    [] text = "7" -> <<"number", 7>>
    [] OTHER -> <<"SyntaxError">>

\* analyzeAuditLogs from the settled generateText on: the array it returns
InsightsFinish(r) ==
  IF r.ok
  THEN LET insights == JsonParse(r.text) IN
       IF insights[1] = "array" THEN <<"array", insights[2]>> ELSE <<"array", <<JText(r.text)>>>>
  ELSE <<"array", <<JText("Analysis error: " \o r.message)>>>>

\* previousMessages.map((msg) => `${msg.role}: ${msg.content}`).join("\n")
RECURSIVE JoinMessages(_)
JoinMessages(msgs) ==
  IF msgs = <<>> THEN ""
  ELSE Head(msgs).role \o ": " \o Head(msgs).content
       \o (IF Tail(msgs) = <<>> THEN "" ELSE "\n" \o JoinMessages(Tail(msgs)))

\* chatWithAI up to getProvider
ChatStart(message, auditLogs, previousMessages) ==
  LET context == Slice(auditLogs, CHAT_LIMIT)
      systemContent == "You are a security analyst assistant for Snyk audit logs. Context: "
                       \o StringifyLogs(context)
                       \o " Previous conversation: " \o JoinMessages(previousMessages)
                       \o " Current user message: " \o message
  IN [returns |-> <<>>,
      messages |-> <<[role |-> "user", content |-> systemContent]>>,
      options |-> <<>>]

\* chatWithAI without its catch: the adapter's error reaches the caller
ChatFinishPropagating(r) ==
  IF r.ok
  THEN JText(IF r.text # "" THEN r.text ELSE CHAT_FALLBACK)
  ELSE <<"throw", r.message>>

\* chatWithAI from the settled generateText on
ChatFinish(r) ==
  IF r.ok
  THEN JText(IF r.text # "" THEN r.text ELSE CHAT_FALLBACK)
  ELSE JText("I encountered an error: " \o r.message \o ". Please try again.")

OrchestratorStart(op, input, t) ==
  CASE op = "generateExecutiveSummary" -> SummaryStart(input.auditLogs, t)
    [] op = "analyzeAuditLogs" -> InsightsStart(input.auditLogs)
    [] op = "chatWithAI" -> ChatStart(input.message, input.auditLogs, input.previousMessages)

OrchestratorFinish(op, r) ==
  CASE op = "generateExecutiveSummary" -> SummaryFinish(r)
    [] op = "analyzeAuditLogs" -> InsightsFinish(r)
    [] op = "chatWithAI" -> ChatFinish(r)

(***************************************************************************)
(* Inputs of the LLM layer.                                                *)
(***************************************************************************)
\* audit-log records of one call
MaxLogs == 2
\* messages of one direct generateText call
MaxMessages == 2

SeqsUpTo(S, n) == UNION {[1..k -> S] : k \in 0..n}

LlmConfig(provider, model, apiKey, baseUrl) ==
  <<[provider |-> provider, model |-> model, apiKey |-> apiKey, baseUrl |-> baseUrl]>>

ProviderNames ==
  { STR_GEMINI,
    <<"G", "E", "M", "I", "N", "I">>,
    <<"G", "o", "o", "g", "l", "e">>,
    <<"G", "o", "o", "g", "l", "e", " ", "G", "e", "m", "i", "n", "i">>,
    STR_OPENAI,
    <<"O", "p", "e", "n", "A", "I">>,
    <<"C", "U", "S", "T", "O", "M">>,
    STR_ANTHROPIC,
    <<"C", "l", "a", "u", "d", "e">>,
    <<" ">> \o STR_GEMINI,
    <<"m", "i", "s", "t", "r", "a", "l">>,
    <<>>,
    <<" ">> }

\* LLMConfig | null
LlmConfigs ==
  {<<>>}
  \cup {LlmConfig(p, <<"m">>, <<"k">>, <<>>) : p \in ProviderNames}
  \cup { LlmConfig(STR_OPENAI, <<>>, <<"k">>, <<>>),
         LlmConfig(STR_GEMINI, <<" ", " ">>, <<"k">>, <<>>),
         LlmConfig(STR_ANTHROPIC, <<"m">>, <<>>, <<>>),
         LlmConfig(STR_OPENAI, <<"m">>, <<" ">>, <<>>),
         LlmConfig(STR_CUSTOM, <<"m">>, <<"k">>, <<<<"http://x">>>>),
         LlmConfig(STR_CUSTOM, <<"m">>, <<"k">>, <<<<"http://x", "/">>>>),
         LlmConfig(STR_CUSTOM, <<"m">>, <<"k">>, <<<<"/">>>>) }

\* audit-log records seen at time t: older than a day, a day old to the tick,
\* a tick old, dated a tick ahead, and with a created no Date can read
AuditLogValues(t) ==
  { [event |-> "org.user.add", created |-> <<t - DAY - 1>>, user_email |-> <<"a@x">>, user_id |-> <<>>],
    [event |-> "org.user.add", created |-> <<t - DAY>>, user_email |-> <<>>, user_id |-> <<"u1">>],
    [event |-> "api.access", created |-> <<t - 1>>, user_email |-> <<"a@x">>, user_id |-> <<"u1">>],
    [event |-> "api.access", created |-> <<t + 1>>, user_email |-> <<"">>, user_id |-> <<>>],
    [event |-> "org.edit", created |-> <<>>, user_email |-> <<>>, user_id |-> <<>>] }

\* messages of a direct call: every role with an empty and a plain content, and
\* a second system instruction
MessageValues ==
  [role : Roles, content : {"", "hi"}] \cup {[role |-> "system", content |-> "be brief"]}

\* previousMessages of chatWithAI
Histories ==
  { <<>>, <<[role |-> "user", content |-> "hi"], [role |-> "assistant", content |-> "hello"]>> }

\* the texts a provider answers with
Texts == { "hello", "[\"a\",\"b\"]", "[]", "[1,{\"k\":2}]", "{\"insights\":[]}", "7" }

Rejections == { [kind |-> "reject", message |-> FETCH_FAILED] }

\* bodies of a response that is not ok, as res.json() reads them
ErrorBodies ==
  { <<"invalid">>,
    <<"null">>,
    <<"object", [error |-> <<>>]>>,
    <<"object", [error |-> <<[message |-> JUndefined]>>]>>,
    <<"object", [error |-> <<[message |-> JText("")]>>]>>,
    <<"object", [error |-> <<[message |-> JText("quota exceeded")]>>]>> }

HttpErrors ==
  { [kind |-> "response", ok |-> FALSE, status |-> s, json |-> j] :
      s \in {401, 500}, j \in ErrorBodies }

HttpOk(json) == [kind |-> "response", ok |-> TRUE, status |-> 200, json |-> json]

OpenAiChoice(content) == <<"object", [choices |-> <<<<[message |-> <<[content |-> content]>>]>>>>]>>

OpenAiOutcomes ==
  Rejections \cup HttpErrors
  \cup { HttpOk(<<"invalid">>), HttpOk(<<"null">>),
         HttpOk(<<"object", [choices |-> <<>>]>>),
         HttpOk(<<"object", [choices |-> <<<<>>>>]>>),
         HttpOk(<<"object", [choices |-> <<<<[message |-> <<>>]>>>>]>>) }
  \cup { HttpOk(OpenAiChoice(c)) : c \in {JUndefined, JNull, JText("")} \cup {JText(x) : x \in Texts} }

AnthropicBlocks(blocks) == <<"object", [content |-> <<blocks>>]>>

AnthropicOutcomes ==
  Rejections \cup HttpErrors
  \cup { HttpOk(<<"invalid">>), HttpOk(<<"null">>),
         HttpOk(<<"object", [content |-> <<>>]>>),
         HttpOk(AnthropicBlocks(<<>>)),
         HttpOk(AnthropicBlocks(<<[type |-> "tool_use", text |-> JUndefined]>>)),
         HttpOk(AnthropicBlocks(<<[type |-> "tool_use", text |-> JUndefined],
                                  [type |-> "text", text |-> JText("hello")]>>)) }
  \cup { HttpOk(AnthropicBlocks(<<[type |-> "text", text |-> c]>>)) :
           c \in {JUndefined, JNull, JText("")} \cup {JText(x) : x \in Texts} }

GeminiResponse(text, candidates) == [kind |-> "response", text |-> text, candidates |-> candidates]

GeminiParts(parts) == <<<<[content |-> <<[parts |-> parts]>>]>>>>

GeminiOutcomes ==
  { [kind |-> "reject", message |-> "got status: 429 Too Many Requests"] }
  \cup { GeminiResponse(JText(x), <<>>) : x \in Texts }
  \cup { GeminiResponse(t, c) :
           t \in {JUndefined, JText("")},
           c \in { <<>>, <<<<>>>>, <<<<[content |-> <<>>]>>>>,
                   GeminiParts(<<>>), GeminiParts(<<<<>>>>) }
                 \cup { GeminiParts(<<<<[text |-> x]>>>>) :
                          x \in {JUndefined, JText(""), JText("hello")} } }

\* what the external provider may answer to a request of the adapter
Outcomes(adapter) ==
  CASE adapter = "gemini" -> GeminiOutcomes
    [] adapter = "openai" -> OpenAiOutcomes
    [] adapter = "anthropic" -> AnthropicOutcomes

(***************************************************************************)
(* The debug routes.  The test cookie that /api/debug/test-cookie sets is  *)
(* not the session cookie and is not part of the client's jar.             *)
(***************************************************************************)
\* one entry of getDebugInfo().sessions
DebugEntry(session, t) ==
  [id |-> JId(session.id),
   hasConfig |-> JBool(session.snykConfig # <<>>),
   hasLlmConfig |-> JBool(session.llmConfig # <<>>),
   configExpired |-> IF session.snykConfig # <<>>
                     THEN JBool(t > session.snykConfig[1].expiresAt)
                     ELSE JNull,
   createdAt |-> JNum(session.createdAt),
   lastAccessed |-> JNum(session.lastAccessed),
   ageMinutes |-> JNum((t - session.createdAt) \div MINUTE)]

\* CookieSessionStorage.getDebugInfo
GetDebugInfo(S, t) ==
  [totalSessions |-> JNum(Cardinality(DOMAIN S.sessions)),
   sessions |-> [i \in 1..Len(KeysInOrder(S.sessions)) |->
                   DebugEntry(S.sessions[KeysInOrder(S.sessions)[i]], t)]]

\* GET /api/debug/sessions
DebugSessionsRoute(S, cookieIn, t) == Reply(S, 200, <<GetDebugInfo(S, t)>>, <<>>)

\* GET /api/debug/test-cookie
DebugTestCookieRoute(S, cookieIn, t) ==
  LET R == GetApiConfiguration(S, cookieIn, t) IN
  Reply(R, 200,
        <<[sessionResult |-> R.ret,
           existingCookies |-> JId(cookieIn),
           sessionDebug |-> GetDebugInfo(Store(R), t)]>>,
        <<R.sid>>)

(***************************************************************************)
(* The data endpoints: audit logs, export, executive summary, insights     *)
(* and chat (server/routes.ts), with MemStorage (server/storage.ts) and    *)
(* the upstream audit-log API behind them.  A handler maps the store, the  *)
(* storage and the request to                                              *)
(*   [sessions, nextId, out, status, body, sids, mem, calls]               *)
(* mem: the storage as the handler leaves it; calls: how many upstream     *)
(* requests, storage calls and generateText calls the request made, and    *)
(* how many of the latter went to a provider (llm).                        *)
(***************************************************************************)
NoCalls == [upstream |-> 0, storage |-> 0, generateText |-> 0, llm |-> 0]

\* the storage at construction; nextChatId stands for randomUUID(), turns
\* counts the chat requests accepted so far
NoMem == [auditLogs |-> <<>>, chatSessions |-> <<>>, nextChatId |-> 1, turns |-> 0]

DataReply(S, M, status, body, sids, calls) ==
  [sessions |-> S.sessions, nextId |-> S.nextId, out |-> S.out,
   status |-> status, body |-> body, sids |-> sids, mem |-> M, calls |-> calls]

NoDataResp ==
  [op |-> "none", client |-> "none", cookieIn |-> NoCookie, request |-> <<>>,
   llmConfig |-> <<>>, status |-> 0, body |-> <<>>, sids |-> <<>>, out |-> <<>>,
   calls |-> NoCalls]

DIGITS == <<"0", "1", "2", "3", "4", "5", "6", "7", "8", "9">>

IsDigit(ch) == \E i \in 1..Len(DIGITS) : DIGITS[i] = ch

DigitValue(ch) == (CHOOSE i \in 1..Len(DIGITS) : DIGITS[i] = ch) - 1

\* the value of the leading digits of s after acc, and how many there are
RECURSIVE LeadingDigits(_, _, _)
LeadingDigits(s, acc, n) ==
  IF s # <<>> /\ IsDigit(Head(s))
  THEN LeadingDigits(Tail(s), acc * 10 + DigitValue(Head(s)), n + 1)
  ELSE [value |-> acc, count |-> n]

\* NaN, which z.number() does not take for a number
JNaN == <<"NaN">>

\* parseInt(s): white space and a sign are skipped, the leading digits are
\* read, NaN when there are none
ParseInt(s) ==
  LET t == TrimStart(s)
      negative == t # <<>> /\ Head(t) = "-"
      unsigned == IF t # <<>> /\ Head(t) \in {"-", "+"} THEN Tail(t) ELSE t
      d == LeadingDigits(unsigned, 0, 0)
  IN IF d.count = 0 THEN JNaN
     ELSE JNum(IF negative THEN 0 - d.value ELSE d.value)

ZOD_FILTER_ERROR == "[{\"path\":[\"size\"],\"message\":\"Invalid input\"}]"
ZOD_CHAT_ERROR == "[{\"path\":[\"message\"],\"message\":\"Invalid input\"}]"

\* size: z.number().min(1).max(100).default(50) passes the value
SizeAccepted(size) ==
  \/ size = JUndefined
  \/ size[1] = "number" /\ size[2] \in 1..100

\* the size GET /api/audit-logs hands to the schema; query.size is <<>> when
\* the query has none, else <<the string>>
AuditLogsSize(query) ==
  IF query.size = <<>> \/ query.size[1] = <<>> THEN JNum(50) ELSE ParseInt(query.size[1])

\* the size GET /api/audit-logs/export hands to the schema: req.query as it is
ExportSize(query) == IF query.size = <<>> THEN JUndefined ELSE JStr(query.size[1])

\* chatMessageSchema passes the body
ChatBodyAccepted(body) ==
  /\ body.message[1] = "string" /\ body.message[2] # ""
  /\ body.sessionId = JUndefined \/ body.sessionId[1] = "chatId"

\* !result || !result.config || !result.config.snykApiToken
NotConfigured(R) == R.ret = <<>> \/ ~Truthy(R.ret[1].config.snykApiToken)

\* which upstream endpoint the handler asks: the organization's when orgId is
\* set, else the group's, none when neither is
AuditLogsEndpoint(config) ==
  IF Truthy(config.orgId) THEN <<"orgs", config.orgId>>
  ELSE IF Truthy(config.groupId) THEN <<"groups", config.groupId>>
  ELSE <<>>

\* storage.createAuditLog for each item; owner records the session whose
\* credentials fetched the item
StoreItems(M, items, owner) ==
  [M EXCEPT !.auditLogs = @ \o [i \in 1..Len(items) |-> [log |-> items[i], owner |-> owner]]]

\* GET /api/audit-logs; upstream is what the upstream API answers if asked
AuditLogsRoute(S, M, cookieIn, query, upstream, t) ==
  IF ~SizeAccepted(AuditLogsSize(query))
  THEN DataReply(S, M, 500, ErrorBody(ZOD_FILTER_ERROR), <<>>, NoCalls)
  ELSE LET R == GetApiConfiguration(S, cookieIn, t) IN
       IF NotConfigured(R)
       THEN DataReply(R, M, 400, ErrorBody("Snyk API not configured or session expired"),
                      <<R.sid>>, NoCalls)
       ELSE IF AuditLogsEndpoint(R.ret[1].config) = <<>>
       THEN DataReply(R, M, 400, ErrorBody("No organization or group ID configured"),
                      <<R.sid>>, NoCalls)
       ELSE IF ~upstream.ok
       THEN DataReply(R, M, 500, ErrorBody(upstream.message), <<R.sid>>,
                      [NoCalls EXCEPT !.upstream = 1])
       ELSE DataReply(R, StoreItems(M, upstream.items, R.sid), 200,
                      <<[items |-> <<"items", upstream.items>>,
                         total |-> JNum(Len(upstream.items))]>>,
                      <<R.sid>>,
                      [NoCalls EXCEPT !.upstream = 1, !.storage = Len(upstream.items)])

\* GET /api/audit-logs/export
ExportRoute(S, M, cookieIn, query, upstream, t) ==
  IF ~SizeAccepted(ExportSize(query))
  THEN DataReply(S, M, 500, ErrorBody(ZOD_FILTER_ERROR), <<>>, NoCalls)
  ELSE LET R == GetApiConfiguration(S, cookieIn, t) IN
       IF NotConfigured(R)
       THEN DataReply(R, M, 400, ErrorBody("Snyk API not configured or session expired"),
                      <<R.sid>>, NoCalls)
       ELSE IF AuditLogsEndpoint(R.ret[1].config) = <<>>
       THEN DataReply(R, M, 400, ErrorBody("No organization or group ID configured"),
                      <<R.sid>>, NoCalls)
       ELSE IF ~upstream.ok
       THEN DataReply(R, M, 500, ErrorBody(upstream.message), <<R.sid>>,
                      [NoCalls EXCEPT !.upstream = 1])
       ELSE DataReply(R, M, 200,
                      <<IF query.format = <<"csv">>
                        THEN <<"csv", upstream.items>>
                        ELSE <<"items", upstream.items>>>>,
                      <<R.sid>>, [NoCalls EXCEPT !.upstream = 1])

\* llmResult?.config ?? null as the LLMConfig the orchestrator takes
ToLlmConfig(ret) ==
  IF ret = <<>> THEN <<>>
  ELSE LET c == ret[1].config IN
       LlmConfig(c.provider[2], c.model[2], c.apiKey[2],
                 IF c.baseUrl = JUndefined THEN <<>> ELSE <<c.baseUrl[2]>>)

\* provider.generateText as an orchestrator operation awaits it; answer is
\* <<>> when no provider is asked, else <<what the provider answers>>
GenerateText(config, answer) ==
  IF GetProvider(config) = "noop"
  THEN Ok(UNCONFIGURED_MESSAGE)
  ELSE AdapterResult(GetProvider(config), answer[1])

\* generateText calls that reach a provider
LlmCalls(config) == IF GetProvider(config) = "noop" THEN 0 ELSE 1

Summary(text) == <<[summary |-> JText(text)]>>

\* the catch of GET /api/executive-summary answering with a summary
SummaryCatchAsSummary(S, M, message, sids, calls) ==
  DataReply(S, M, 200, Summary("Summary generation error: " \o message), sids, calls)

\* the catch of GET /api/executive-summary
SummaryCatch(S, M, message, sids, calls) ==
  DataReply(S, M, 500, ErrorBody(message), sids, calls)

\* GET /api/executive-summary
ExecutiveSummaryRoute(S, M, cookieIn, upstream, answer, t) ==
  LET R1 == GetApiConfiguration(S, cookieIn, t) IN
  IF NotConfigured(R1)
  THEN DataReply(R1, M, 200,
                 Summary("No API configuration found or session expired. Please configure your Snyk API settings."),
                 <<R1.sid>>, NoCalls)
  ELSE IF AuditLogsEndpoint(R1.ret[1].config) = <<>>
  THEN DataReply(R1, M, 200, Summary("No organization or group ID configured for analysis."),
                 <<R1.sid>>, NoCalls)
  ELSE IF ~upstream.ok
  THEN SummaryCatch(R1, M, upstream.message, <<R1.sid>>, [NoCalls EXCEPT !.upstream = 1])
  ELSE IF Len(upstream.items) = 0
  THEN DataReply(R1, M, 200, Summary("No audit logs found in the last 24 hours for analysis."),
                 <<R1.sid>>, [NoCalls EXCEPT !.upstream = 1])
  ELSE LET R2 == GetLlmConfiguration(Store(R1), cookieIn, t)
           llmConfig == ToLlmConfig(R2.ret)
           start == SummaryStart(upstream.items, t)
       IN IF start.returns # <<>>
          THEN DataReply(R2, M, 200, Summary(start.returns[1]), <<R1.sid, R2.sid>>,
                         [NoCalls EXCEPT !.upstream = 1])
          ELSE DataReply(R2, M, 200,
                         <<[summary |-> SummaryFinish(GenerateText(llmConfig, answer))]>>,
                         <<R1.sid, R2.sid>>,
                         [NoCalls EXCEPT !.upstream = 1, !.generateText = 1,
                                         !.llm = LlmCalls(llmConfig)])

\* storage.getAllAuditLogs()
GetAllAuditLogs(M) == [i \in 1..Len(M.auditLogs) |-> M.auditLogs[i].log]

\* GET /api/insights
InsightsRoute(S, M, cookieIn, answer, t) ==
  IF Len(M.auditLogs) = 0
  THEN DataReply(S, M, 200, <<[insights |-> <<"array", <<>>>>]>>, <<>>,
                 [NoCalls EXCEPT !.storage = 1])
  ELSE LET R == GetLlmConfiguration(S, cookieIn, t)
           llmConfig == ToLlmConfig(R.ret)
       IN DataReply(R, M, 200,
                    <<[insights |-> InsightsFinish(GenerateText(llmConfig, answer))]>>,
                    <<R.sid>>,
                    [NoCalls EXCEPT !.storage = 1, !.generateText = 1,
                                    !.llm = LlmCalls(llmConfig)])

JChatId(id) == <<"chatId", id>>

\* POST /api/chat up to await chatWithAI(): the response it can send at once,
\* or the turn it suspends with
ChatBeginRoute(S, M, cookieIn, body, t) ==
  IF ~ChatBodyAccepted(body)
  THEN [reply |-> <<DataReply(S, M, 500, ErrorBody(ZOD_CHAT_ERROR), <<>>, NoCalls)>>,
        turn |-> <<>>]
  ELSE LET known == body.sessionId # JUndefined /\ body.sessionId[2] \in DOMAIN M.chatSessions
           chatId == IF known THEN body.sessionId[2] ELSE M.nextChatId
           M1 == IF known THEN M
                 ELSE [M EXCEPT !.chatSessions = MapSet(@, chatId, <<>>),
                                !.nextChatId = @ + 1]
           currentMessages == M1.chatSessions[chatId]
           R == GetLlmConfiguration(S, cookieIn, t)
       IN [reply |-> <<>>,
           turn |-> <<[store |-> R, mem |-> [M1 EXCEPT !.turns = @ + 1],
                       message |-> body.message[2], chatId |-> chatId,
                       auditLogs |-> GetAllAuditLogs(M),
                       currentMessages |-> currentMessages,
                       llmConfig |-> ToLlmConfig(R.ret),
                       storage |-> IF body.sessionId = JUndefined THEN 2
                                   ELSE IF known THEN 2 ELSE 3]>>]

\* POST /api/chat from the settled chatWithAI() on, on the storage as it is by
\* then
ChatFinishRoute(S, M, turn, answer) ==
  LET aiResponse == ChatFinish(GenerateText(turn.llmConfig, answer))[2]
      updatedMessages == turn.currentMessages
                           \o <<[role |-> "user", content |-> turn.message],
                                [role |-> "assistant", content |-> aiResponse]>>
  IN DataReply(S, [M EXCEPT !.chatSessions[turn.chatId] = updatedMessages], 200,
               <<[sessionId |-> JChatId(turn.chatId),
                  response |-> JText(aiResponse),
                  messages |-> <<"messages", updatedMessages>>]>>,
               <<turn.store.sid>>,
               [upstream |-> 0, storage |-> turn.storage + 1, generateText |-> 1,
                llm |-> LlmCalls(turn.llmConfig)])

NoInput ==
  [auditLogs |-> <<>>, message |-> "", previousMessages |-> <<>>, messages |-> <<>>,
   options |-> <<>>]

\* no orchestrator or adapter call in progress
NoCall ==
  [phase |-> "idle", op |-> "none", adapter |-> "none", config |-> <<>>, input |-> NoInput,
   request |-> <<>>, generateTextCalls |-> 0, requests |-> 0, outcome |-> <<>>,
   result |-> <<>>]

Orchestrators == {"generateExecutiveSummary", "analyzeAuditLogs", "chatWithAI"}

(***************************************************************************)
(* State.                                                                  *)
(***************************************************************************)
VARIABLES
  now,        \* Date.now(), in ticks
  clockSteps, \* clock advances so far
  posts,      \* POST requests received so far
  sessions,   \* CookieSessionStorage.sessions
  nextId,     \* the next id generateSessionId hands out
  jar,        \* jar[c]: the snyk-session-id cookie client c holds, or NoCookie
  pending,    \* POST /api/config requests suspended at await testConnection(),
              \* each with its arrival number, its cookie and its body
  resp,       \* the response the last step sent, NoResp when it sent none
  hist,       \* per session and kind, the last set: when, with which TTL, by
              \* which payload, whether extended since, and the expiry granted
  call,       \* the call of an orchestrator operation or of an adapter's
              \* generateText in progress, NoCall when there is none
  mem,        \* MemStorage: the audit logs and the chat sessions it holds
  chatting,   \* POST /api/chat requests suspended at await chatWithAI()
  dresp       \* the response to the last request of a data endpoint, with
              \* the calls the request made, NoDataResp when there was none

\* the state of the session store and its clients
storeVars == <<now, clockSteps, posts, sessions, nextId, jar, pending, resp, hist>>

\* the state of the data endpoints
apiVars == <<mem, chatting, dresp>>

vars == <<now, clockSteps, posts, sessions, nextId, jar, pending, resp, hist, call,
          mem, chatting, dresp>>

\* removed: the sessions the step deleted; dropped: the <<id, kind>> records it
\* deleted from sessions it kept
NoResp ==
  [op |-> "none", client |-> "none", cookieIn |-> NoCookie, status |-> 0,
   body |-> <<>>, sids |-> <<>>, out |-> <<>>, removed |-> {}, dropped |-> {}]

Kinds == {"snykConfig", "llmConfig"}

Response(op, c, cookieIn, R) ==
  [op |-> op, client |-> c, cookieIn |-> cookieIn, status |-> R.status,
   body |-> R.body, sids |-> R.sids, out |-> R.out,
   removed |-> DOMAIN sessions \ DOMAIN R.sessions,
   dropped |-> {x \in (DOMAIN sessions \cap DOMAIN R.sessions) \X Kinds :
                  sessions[x[1]][x[2]] # <<>> /\ R.sessions[x[1]][x[2]] = <<>>}]

\* the store as a request finds it: nothing written on its response yet
S0 == [sessions |-> sessions, nextId |-> nextId, out |-> <<>>]

\* the cookie a client holds after a response: the last Set-Cookie for the name wins
ApplyCookies(held, out) ==
  IF out = <<>> THEN held
  ELSE IF out[Len(out)][1] = "set" THEN out[Len(out)][2] ELSE NoCookie

NoHist == [snykConfig |-> <<>>, llmConfig |-> <<>>]

\* hist after a step that leaves the map as newSessions: entries of removed
\* sessions go, new sessions start with none
CarryHist(newSessions) ==
  [id \in DOMAIN newSessions |-> IF id \in DOMAIN hist THEN hist[id] ELSE NoHist]

SetEntry(payload, ttl) ==
  <<[setAt |-> now, ttl |-> ttl, payload |-> payload, extended |-> FALSE,
     deadline |-> now + ttl * MINUTE]>>

\* a POST request arrives
ReceivePost ==
  /\ posts < MaxPosts
  /\ posts' = posts + 1

\* the store part of a step that ran handler result R for client c
Commit(c, R) ==
  /\ sessions' = R.sessions
  /\ nextId' = R.nextId
  /\ jar' = [jar EXCEPT ![c] = ApplyCookies(jar[c], R.out)]

(***************************************************************************)
(* Actions.                                                                *)
(***************************************************************************)
Init ==
  /\ now = 0
  /\ clockSteps = 0
  /\ posts = 0
  /\ sessions = <<>>
  /\ nextId = 1
  /\ jar = [c \in AllClients |-> NoCookie]
  /\ pending = {}
  /\ resp = NoResp
  /\ hist = <<>>
  /\ call = NoCall
  /\ mem = NoMem
  /\ chatting = {}
  /\ dresp = NoDataResp

GetConfig(c) ==
  LET R == GetConfigRoute(S0, jar[c], now) IN
  /\ Commit(c, R)
  /\ resp' = Response("GET /api/config", c, jar[c], R)
  /\ hist' = CarryHist(R.sessions)
  /\ UNCHANGED <<now, clockSteps, posts, pending, call, apiVars>>

\* POST /api/config rejected before the connectivity check
PostConfigReject(c, body) ==
  /\ ~PostConfigAccepted(body)
  /\ ReceivePost
  /\ resp' = Response("POST /api/config", c, jar[c],
                      Reply(S0, 400, ErrorBody("Snyk API token is required"), <<>>))
  /\ UNCHANGED <<now, clockSteps, sessions, nextId, jar, pending, hist, call, apiVars>>

\* POST /api/config suspends at await snykApi.testConnection()
PostConfigBegin(c, body) ==
  /\ PostConfigAccepted(body)
  /\ ReceivePost
  /\ Cardinality(pending) < MaxInFlight
  /\ pending' = pending \cup {[seq |-> posts + 1, client |-> c, cookieIn |-> jar[c], body |-> body]}
  /\ resp' = NoResp
  /\ UNCHANGED <<now, clockSteps, sessions, nextId, jar, hist, call, apiVars>>

\* testConnection resolves and the handler runs to its response
PostConfigFinish(req, result) ==
  LET R == PostConfigRoute(S0, req.cookieIn, req.body, result, now) IN
  /\ req \in pending
  /\ Commit(req.client, R)
  /\ pending' = pending \ {req}
  /\ resp' = Response("POST /api/config", req.client, req.cookieIn, R)
  /\ hist' = IF result.success
             THEN [CarryHist(R.sessions) EXCEPT
                     ![R.sids[1]].snykConfig =
                        SetEntry(R.sessions[R.sids[1]].snykConfig[1], ROUTE_TTL_MINUTES)]
             ELSE hist
  /\ UNCHANGED <<now, clockSteps, posts, call, apiVars>>

ClearConfig(c) ==
  LET R == ClearConfigRoute(S0, jar[c], now) IN
  /\ ReceivePost
  /\ Commit(c, R)
  /\ resp' = Response("POST /api/config/clear", c, jar[c], R)
  /\ hist' = CarryHist(R.sessions)
  /\ UNCHANGED <<now, clockSteps, pending, call, apiVars>>

ExtendConfig(c, minutes) ==
  LET R == ExtendConfigRoute(S0, jar[c], minutes, now) IN
  /\ ReceivePost
  /\ Commit(c, R)
  /\ resp' = Response("POST /api/config/extend", c, jar[c], R)
  /\ hist' = IF R.status = 200
             THEN [CarryHist(R.sessions) EXCEPT
                     ![R.sids[1]].snykConfig =
                        <<[@[1] EXCEPT !.extended = TRUE,
                                       !.deadline = R.sessions[R.sids[1]].snykConfig[1].expiresAt]>>]
             ELSE CarryHist(R.sessions)
  /\ UNCHANGED <<now, clockSteps, pending, call, apiVars>>

GetLlmConfig(c) ==
  LET R == GetLlmConfigRoute(S0, jar[c], now) IN
  /\ Commit(c, R)
  /\ resp' = Response("GET /api/llm-config", c, jar[c], R)
  /\ hist' = CarryHist(R.sessions)
  /\ UNCHANGED <<now, clockSteps, posts, pending, call, apiVars>>

PostLlmConfig(c, body) ==
  LET R == PostLlmConfigRoute(S0, jar[c], body, now) IN
  /\ ReceivePost
  /\ Commit(c, R)
  /\ resp' = Response("POST /api/llm-config", c, jar[c], R)
  /\ hist' = IF R.status = 200
             THEN [CarryHist(R.sessions) EXCEPT
                     ![R.sids[1]].llmConfig =
                        SetEntry(R.sessions[R.sids[1]].llmConfig[1], ROUTE_TTL_MINUTES)]
             ELSE hist
  /\ UNCHANGED <<now, clockSteps, pending, call, apiVars>>

ClearLlmConfig(c) ==
  LET R == ClearLlmConfigRoute(S0, jar[c], now) IN
  /\ ReceivePost
  /\ Commit(c, R)
  /\ resp' = Response("POST /api/llm-config/clear", c, jar[c], R)
  /\ hist' = [CarryHist(R.sessions) EXCEPT ![R.sids[1]].llmConfig = <<>>]
  /\ UNCHANGED <<now, clockSteps, pending, call, apiVars>>

\* the setInterval callback of the constructor
Sweep ==
  /\ sessions' = CleanupExpiredSessions(sessions, now)
  /\ hist' = CarryHist(sessions')
  /\ resp' = NoResp
  /\ UNCHANGED <<now, clockSteps, posts, nextId, jar, pending, call, apiVars>>

Tick(d) ==
  /\ clockSteps < MaxClockSteps
  /\ now' = now + d
  /\ clockSteps' = clockSteps + 1
  /\ resp' = NoResp
  /\ UNCHANGED <<posts, sessions, nextId, jar, pending, hist, call, apiVars>>

Next ==
  \/ \E c \in Clients : GetConfig(c)
  \/ \E c \in Clients, body \in ApiBodies : PostConfigReject(c, body)
  \/ \E c \in Clients, body \in ApiBodies : PostConfigBegin(c, body)
  \/ \E req \in pending, result \in TestConnectionResults : PostConfigFinish(req, result)
  \/ \E c \in Clients : ClearConfig(c)
  \/ \E c \in Clients, minutes \in ExtendInputs : ExtendConfig(c, minutes)
  \/ \E c \in Clients : GetLlmConfig(c)
  \/ \E c \in Clients, body \in LlmBodies : PostLlmConfig(c, body)
  \/ \E c \in Clients : ClearLlmConfig(c)
  \/ Sweep
  \/ \E d \in ClockStepSizes : Tick(d)

Spec == Init /\ [][Next]_vars

(***************************************************************************)
(* Calls of the LLM layer.  A call runs to its await of the provider       *)
(* (StartOrchestrator, StartGenerateText), the provider answers (Settle),  *)
(* and the caller takes the result (Return).                               *)
(***************************************************************************)
\* what a direct caller of generateText gets
GenerateTextFinish(r) == IF r.ok THEN JText(r.text) ELSE <<"throw", r.message>>

\* what the caller of op gets once generateText has settled to r
Finish(op, r) ==
  IF op = "generateText" THEN GenerateTextFinish(r) ELSE OrchestratorFinish(op, r)

\* getProvider(config).generateText(messages, options) in operation op, up to
\* its await: the no-op adapter resolves at once and sends nothing
CallAdapter(op, config, input, messages, options) ==
  LET adapter == GetProvider(config) IN
  IF adapter = "noop"
  THEN [NoCall EXCEPT !.phase = "done", !.op = op, !.adapter = adapter, !.config = config,
                      !.input = input, !.generateTextCalls = 1,
                      !.result = <<Finish(op, Ok(UNCONFIGURED_MESSAGE))>>]
  ELSE [NoCall EXCEPT !.phase = "awaiting", !.op = op, !.adapter = adapter, !.config = config,
                      !.input = input, !.generateTextCalls = 1, !.requests = 1,
                      !.request = <<AdapterRequest(adapter, config[1], messages, options)>>]

\* the arguments of an orchestrator operation: only chatWithAI takes a message
\* and the previous messages
OrchestratorInputs(op) ==
  [auditLogs : SeqsUpTo(AuditLogValues(now), MaxLogs),
   message : IF op = "chatWithAI" THEN {"hi"} ELSE {""},
   previousMessages : IF op = "chatWithAI" THEN Histories ELSE {<<>>},
   messages : {<<>>}, options : {<<>>}]

\* generateExecutiveSummary, analyzeAuditLogs or chatWithAI is called
StartOrchestrator ==
  /\ call.phase = "idle"
  /\ \E op \in Orchestrators, config \in LlmConfigs :
       \E input \in OrchestratorInputs(op) :
         LET start == OrchestratorStart(op, input, now) IN
         call' = IF start.returns # <<>>
                 THEN [NoCall EXCEPT !.phase = "done", !.op = op, !.config = config,
                                     !.input = input, !.result = <<JText(start.returns[1])>>]
                 ELSE CallAdapter(op, config, input, start.messages, start.options)
  /\ UNCHANGED <<storeVars, apiVars>>

\* generateText of an adapter is called directly
StartGenerateText ==
  /\ call.phase = "idle"
  /\ \E config \in LlmConfigs, messages \in SeqsUpTo(MessageValues, MaxMessages),
        options \in {<<>>, SUMMARY_OPTIONS} :
       call' = CallAdapter("generateText", config,
                           [NoInput EXCEPT !.messages = messages, !.options = options],
                           messages, options)
  /\ UNCHANGED <<storeVars, apiVars>>

\* an adapter that sends the request again when the provider fails
SettleRetrying ==
  /\ call.phase = "awaiting"
  /\ \E outcome \in Outcomes(call.adapter) :
       LET r == AdapterResult(call.adapter, outcome) IN
       call' = IF ~r.ok /\ call.requests < 2
               THEN [call EXCEPT !.requests = @ + 1]
               ELSE [call EXCEPT !.phase = "done",
                                 !.outcome = <<outcome>>,
                                 !.result = <<Finish(call.op, r)>>]
  /\ UNCHANGED <<storeVars, apiVars>>

\* the provider answers, or the request fails, and the call runs to its end
Settle ==
  /\ call.phase = "awaiting"
  /\ \E outcome \in Outcomes(call.adapter) :
       LET r == AdapterResult(call.adapter, outcome) IN
       call' = [call EXCEPT !.phase = "done",
                            !.outcome = <<outcome>>,
                            !.result = <<Finish(call.op, r)>>]
  /\ UNCHANGED <<storeVars, apiVars>>

\* the caller has the result
Return ==
  /\ call.phase = "done"
  /\ call' = NoCall
  /\ UNCHANGED <<storeVars, apiVars>>

NextLlm ==
  \/ StartOrchestrator
  \/ StartGenerateText
  \/ Settle
  \/ Return

SpecLlm == Init /\ [][NextLlm]_vars

(***************************************************************************)
(* The executive summary over collections long enough to reach its limits. *)
(***************************************************************************)
\* records of one event type in a collection
MaxPerEvent == 2

\* the event types of the collections, each with the user its records name
SummaryEvents ==
  << [event |-> "org.user.add", user_email |-> <<"a@x">>, user_id |-> <<"u1">>],
     [event |-> "org.user.remove", user_email |-> <<>>, user_id |-> <<"u1">>],
     [event |-> "org.edit", user_email |-> <<"">>, user_id |-> <<"u2">>],
     [event |-> "org.project.add", user_email |-> <<>>, user_id |-> <<>>],
     [event |-> "org.project.remove", user_email |-> <<"b@x">>, user_id |-> <<>>],
     [event |-> "org.service_account.create", user_email |-> <<"">>, user_id |-> <<"">>] >>

LogOf(e, created) ==
  [event |-> e.event, created |-> created, user_email |-> e.user_email, user_id |-> e.user_id]

Repeat(x, n) == [i \in 1..n |-> x]

\* mult[i] records of the i-th event type, type after type
RECURSIVE Blocks(_, _, _)
Blocks(mult, i, t) ==
  IF i > Len(SummaryEvents) THEN <<>>
  ELSE Repeat(LogOf(SummaryEvents[i], <<t - 1>>), mult[i]) \o Blocks(mult, i + 1, t)

\* collections at time t: a record older than a day and one no Date can read,
\* then none or many records of api.access, then the event types
SummaryLogs(t) ==
  { << [event |-> "api.access", created |-> <<t - DAY - 1>>, user_email |-> <<"c@x">>, user_id |-> <<>>],
       [event |-> "api.access", created |-> <<>>, user_email |-> <<"d@x">>, user_id |-> <<>>] >>
    \o Repeat([event |-> "api.access", created |-> <<t - DAY>>, user_email |-> <<"a@x">>, user_id |-> <<>>], k)
    \o Blocks(mult, 1, t) :
      k \in {0, SUMMARY_LIMIT - TOP_EVENTS - 1},
      mult \in [1..Len(SummaryEvents) -> 0..MaxPerEvent] }

\* generateExecutiveSummary is called with one of the collections
StartSummary ==
  /\ call.phase = "idle"
  /\ \E auditLogs \in SummaryLogs(now) :
       LET input == [NoInput EXCEPT !.auditLogs = auditLogs]
           config == LlmConfig(STR_GEMINI, <<"m">>, <<"k">>, <<>>)
           start == SummaryStart(auditLogs, now) IN
       call' = IF start.returns # <<>>
               THEN [NoCall EXCEPT !.phase = "done", !.op = "generateExecutiveSummary",
                                   !.config = config, !.input = input,
                                   !.result = <<JText(start.returns[1])>>]
               ELSE CallAdapter("generateExecutiveSummary", config, input,
                                start.messages, start.options)
  /\ UNCHANGED <<storeVars, apiVars>>

NextSummary ==
  \/ StartSummary
  \/ Settle
  \/ Return

SpecSummary == Init /\ [][NextSummary]_vars

(***************************************************************************)
(* The data endpoints as actions, and the specification of a deployment    *)
(* that is configured and then queried.                                    *)
(***************************************************************************)
\* bodies of POST /api/config with an organization and with neither an
\* organization nor a group
DataApiBodies ==
  { [snykApiToken |-> TOKEN_A, groupId |-> JUndefined, orgId |-> JStr(<<"o1">>),
     apiVersion |-> JUndefined],
    [snykApiToken |-> TOKEN_A, groupId |-> JUndefined, orgId |-> JUndefined,
     apiVersion |-> JUndefined] }

STR_MISTRAL == <<"m", "i", "s", "t", "r", "a", "l">>

\* bodies of POST /api/llm-config: a provider the factory knows, one it does
\* not, and one of white space only
DataLlmBodies ==
  { [provider |-> JStr(p), model |-> JStr(<<"m">>), apiKey |-> JStr(<<"k">>),
     baseUrl |-> JUndefined] : p \in {STR_OPENAI, STR_MISTRAL, <<" ">>} }

\* req.query of the audit-log endpoints: size absent, in range, out of range
\* and not a number; format absent or csv
SizeStrings == { <<"1", "0", "0">>, <<"1", "0", "1">>, <<"0">>, <<"x">> }

AuditLogQueries ==
  { [size |-> <<>>, format |-> <<"csv">>] }
  \cup [size : {<<>>} \cup {<<s>> : s \in SizeStrings}, format : {<<>>}]

\* bodies of POST /api/chat
ChatBodies ==
  { [message |-> JText("hi"), sessionId |-> JUndefined],
    [message |-> JText("hi"), sessionId |-> JChatId(1)],
    [message |-> JText(""), sessionId |-> JUndefined] }

\* what the upstream audit-log search answers: an error status, or a page of
\* items: none, one of the last day, one older
UpstreamResults(t) ==
  { [ok |-> FALSE, items |-> <<>>, message |-> "Snyk API error: 401"] }
  \cup { [ok |-> TRUE, items |-> items, message |-> ""] :
           items \in { <<>>,
                       <<[event |-> "api.access", created |-> <<t - 1>>,
                          user_email |-> <<"a@x">>, user_id |-> <<"u1">>]>>,
                       <<[event |-> "org.user.add", created |-> <<t - DAY - 1>>,
                          user_email |-> <<"a@x">>, user_id |-> <<>>]>> } }

\* answers of the provider the data endpoints are run against: the request
\* fails, is refused, is answered with prose, with a JSON array
DataOutcomes ==
  { [kind |-> "reject", message |-> FETCH_FAILED],
    [kind |-> "response", ok |-> FALSE, status |-> 401,
     json |-> <<"object", [error |-> <<[message |-> JText("quota exceeded")]>>]>>],
    HttpOk(OpenAiChoice(JText("hello"))),
    HttpOk(OpenAiChoice(JText("[\"a\",\"b\"]"))) }

\* what the provider answers to the request of generateText, <<>> when the
\* configuration selects no provider
LlmAnswers(config) ==
  IF GetProvider(config) = "noop" THEN {<<>>}
  ELSE {<<o>> : o \in DataOutcomes \cap Outcomes(GetProvider(config))}

\* the LLM configuration a request of the cookie would be served with
LlmConfigFor(S, cookieIn, t) == ToLlmConfig(GetLlmConfiguration(S, cookieIn, t).ret)

\* llmConfig: the LLM configuration the request's session had for it
DataResponse(op, c, cookieIn, request, llmConfig, R) ==
  [op |-> op, client |-> c, cookieIn |-> cookieIn, request |-> request,
   llmConfig |-> llmConfig, status |-> R.status, body |-> R.body, sids |-> R.sids, out |-> R.out,
   calls |-> R.calls]

\* the step of a data endpoint that ran handler result R for client c
DataCommit(op, c, cookieIn, request, llmConfig, R) ==
  /\ Len(R.mem.auditLogs) <= MaxStored
  /\ Commit(c, R)
  /\ mem' = R.mem
  /\ dresp' = DataResponse(op, c, cookieIn, request, llmConfig, R)
  /\ hist' = CarryHist(R.sessions)
  /\ resp' = NoResp
  /\ UNCHANGED <<now, clockSteps, posts, pending, call>>

\* the upstream API answers only the handler that asks it: R is the result of
\* the handler on Unasked
Unasked == [ok |-> FALSE, items |-> <<>>, message |-> ""]

UpstreamAnswers(R, t) == IF R.calls.upstream = 0 THEN {Unasked} ELSE UpstreamResults(t)

GetAuditLogs(c) ==
  \E query \in AuditLogQueries :
    \E upstream \in UpstreamAnswers(AuditLogsRoute(S0, mem, jar[c], query, Unasked, now), now) :
      /\ query.format = <<>>
      /\ DataCommit("GET /api/audit-logs", c, jar[c], query,
                    LlmConfigFor(S0, jar[c], now),
                    AuditLogsRoute(S0, mem, jar[c], query, upstream, now))
      /\ UNCHANGED chatting

ExportAuditLogs(c) ==
  \E query \in AuditLogQueries :
    \E upstream \in UpstreamAnswers(ExportRoute(S0, mem, jar[c], query, Unasked, now), now) :
      /\ DataCommit("GET /api/audit-logs/export", c, jar[c], query,
                    LlmConfigFor(S0, jar[c], now),
                    ExportRoute(S0, mem, jar[c], query, upstream, now))
      /\ UNCHANGED chatting

\* the provider answers only the summary that reaches generateText
SummaryAnswers(config, upstream, t) ==
  IF upstream.ok /\ SummaryStart(upstream.items, t).returns = <<>>
  THEN LlmAnswers(config) ELSE {<<>>}

GetExecutiveSummary(c) ==
  \E upstream \in UpstreamAnswers(ExecutiveSummaryRoute(S0, mem, jar[c], Unasked, <<>>, now), now) :
    \E answer \in SummaryAnswers(LlmConfigFor(S0, jar[c], now), upstream, now) :
      /\ DataCommit("GET /api/executive-summary", c, jar[c],
                    [upstream |-> upstream, answer |-> answer],
                    LlmConfigFor(S0, jar[c], now),
                    ExecutiveSummaryRoute(S0, mem, jar[c], upstream, answer, now))
      /\ UNCHANGED chatting

GetInsights(c) ==
  \E answer \in IF Len(mem.auditLogs) = 0 THEN {<<>>}
                ELSE LlmAnswers(LlmConfigFor(S0, jar[c], now)) :
    /\ DataCommit("GET /api/insights", c, jar[c], <<>>,
                  LlmConfigFor(S0, jar[c], now),
                  InsightsRoute(S0, mem, jar[c], answer, now))
    /\ UNCHANGED chatting

\* POST /api/chat answers at once, or suspends at await chatWithAI()
PostChatBegin(c) ==
  \E body \in ChatBodies :
    LET B == ChatBeginRoute(S0, mem, jar[c], body, now) IN
    IF B.reply # <<>>
    THEN /\ DataCommit("POST /api/chat", c, jar[c], body, LlmConfigFor(S0, jar[c], now),
                       B.reply[1])
         /\ UNCHANGED chatting
    ELSE /\ ReceivePost
         /\ sessions' = B.turn[1].store.sessions
         /\ nextId' = B.turn[1].store.nextId
         /\ mem' = B.turn[1].mem
         /\ chatting' = chatting \cup {[seq |-> mem.turns + 1, client |-> c,
                                        cookieIn |-> jar[c], body |-> body,
                                        turn |-> B.turn[1]]}
         /\ hist' = CarryHist(B.turn[1].store.sessions)
         /\ resp' = NoResp
         /\ UNCHANGED <<now, clockSteps, jar, pending, call, dresp>>

\* chatWithAI settles and the handler runs to its response
PostChatFinish ==
  \E req \in chatting :
    \E answer \in LlmAnswers(req.turn.llmConfig) :
      /\ DataCommit("POST /api/chat", req.client, req.cookieIn, req.body,
                    req.turn.llmConfig,
                    ChatFinishRoute([S0 EXCEPT !.out = req.turn.store.out], mem,
                                    req.turn, answer))
      /\ chatting' = chatting \ {req}

\* configuration requests and data requests
NextApi ==
  \/ \E c \in Clients, body \in DataApiBodies : PostConfigBegin(c, body)
  \/ \E req \in pending, result \in {r \in TestConnectionResults : r.success} :
       PostConfigFinish(req, result)
  \/ \E c \in Clients, body \in DataLlmBodies : PostLlmConfig(c, body)
  \/ \E c \in Clients : GetAuditLogs(c)
  \/ \E c \in Clients : ExportAuditLogs(c)
  \/ \E c \in Clients : GetExecutiveSummary(c)
  \/ \E c \in Clients : GetInsights(c)
  \/ \E c \in Clients : PostChatBegin(c)
  \/ PostChatFinish

SpecApi == Init /\ [][NextApi]_vars

(***************************************************************************)
(* The session store called directly: every public method of               *)
(* CookieSessionStorage by two clients, the sweep and the clock.           *)
(***************************************************************************)
TOKEN_A2 == JStr(<<"tokA2">>)
TOKEN_B == JStr(<<"tokB">>)

\* upstream payloads a client sets: no two clients set the same, and the two
\* of c1 have different fields
ApiPayloadsOf(c) ==
  IF c = "c1"
  THEN { [snykApiToken |-> TOKEN_A, groupId |-> JStr(<<"g1">>)],
         [snykApiToken |-> TOKEN_A2, orgId |-> JStr(<<"o1">>),
          apiVersion |-> DEFAULT_API_VERSION] }
  ELSE { [snykApiToken |-> TOKEN_B, groupId |-> JStr(<<"g2">>)] }

\* LLM payloads a client sets
LlmPayloadsOf(c) ==
  IF c = "c1"
  THEN { [provider |-> JStr(STR_GEMINI), model |-> JStr(<<"pro">>), apiKey |-> KEY_1,
          baseUrl |-> JStr(<<"http://x">>)] }
  ELSE { [provider |-> JStr(STR_ANTHROPIC), model |-> JStr(<<"m">>), apiKey |-> KEY_2] }

\* expirationMinutes of a set: the default, which is also what the routes pass
StoreTtls == {ROUTE_TTL_MINUTES}

\* number | null as getTimeUntilExpiration returns it, as the body of a
\* response: <<>> for null
MinutesBody(ret) == IF ret = <<>> THEN <<>> ELSE <<[minutes |-> ret[1]]>>

\* the payload of the record of the kind a request with the cookie finds in
\* its session, <<>> when it finds none
Held(cookieIn, kind) ==
  IF cookieIn # NoCookie /\ cookieIn \in DOMAIN sessions
     /\ ~IdleExpired(sessions[cookieIn], now)
     /\ sessions[cookieIn][kind] # <<>>
  THEN <<Omit(sessions[cookieIn][kind][1], {"expiresAt"})>>
  ELSE <<>>

\* the body recorded for a clear, which returns nothing: what the session of
\* the request held when it was called
HeldBefore(cookieIn) ==
  <<[snykConfig |-> Held(cookieIn, "snykConfig"), llmConfig |-> Held(cookieIn, "llmConfig")]>>

\* the entry of hist for a direct set of the payload: replaced is the payload
\* the set wrote over
SetEntryOver(payload, ttl, replaced) ==
  <<Spread(SetEntry(payload, ttl)[1], [replaced |-> replaced])>>

\* the store part and the response of a direct call with result R; body is
\* what the method returned
StoreCall(op, c, R, body) ==
  /\ Commit(c, R)
  /\ resp' = Response(op, c, jar[c], Reply(R, 0, body, <<R.sid>>))
  /\ UNCHANGED <<now, clockSteps, pending, call, apiVars>>

CallGetApi(c) ==
  LET R == GetApiConfiguration(S0, jar[c], now) IN
  /\ StoreCall("getApiConfiguration", c, R, R.ret)
  /\ hist' = CarryHist(R.sessions)
  /\ UNCHANGED posts

CallSetApi(c) ==
  /\ ReceivePost
  /\ \E config \in ApiPayloadsOf(c), ttl \in StoreTtls :
       LET R == SetApiConfiguration(S0, jar[c], config, ttl, now) IN
       /\ StoreCall("setApiConfiguration", c, R, <<>>)
       /\ hist' = [CarryHist(R.sessions) EXCEPT
                     ![R.sid].snykConfig = SetEntryOver(config, ttl, Held(jar[c], "snykConfig"))]

CallGetTime(c) ==
  LET R == GetTimeUntilExpiration(S0, jar[c], now) IN
  /\ StoreCall("getTimeUntilExpiration", c, R, MinutesBody(R.ret))
  /\ hist' = CarryHist(R.sessions)
  /\ UNCHANGED posts

CallClear(c) ==
  LET R == ClearConfiguration(S0, jar[c], now) IN
  /\ ReceivePost
  /\ StoreCall("clearConfiguration", c, R, HeldBefore(jar[c]))
  /\ hist' = CarryHist(R.sessions)

CallExtend(c) ==
  LET R == ExtendConfiguration(S0, jar[c], ROUTE_TTL_MINUTES, now) IN
  /\ ReceivePost
  /\ StoreCall("extendConfiguration", c, R, <<[extended |-> R.ret]>>)
  /\ hist' = IF R.ret
             THEN [CarryHist(R.sessions) EXCEPT
                     ![R.sid].snykConfig =
                        <<[@[1] EXCEPT !.extended = TRUE,
                                       !.deadline = R.sessions[R.sid].snykConfig[1].expiresAt]>>]
             ELSE CarryHist(R.sessions)

CallSetLlm(c) ==
  /\ UNCHANGED posts
  /\ \E config \in LlmPayloadsOf(c), ttl \in StoreTtls :
       LET R == SetLlmConfiguration(S0, jar[c], config, ttl, now) IN
       /\ StoreCall("setLlmConfiguration", c, R, <<>>)
       /\ hist' = [CarryHist(R.sessions) EXCEPT
                     ![R.sid].llmConfig = SetEntryOver(config, ttl, Held(jar[c], "llmConfig"))]

CallGetLlm(c) ==
  LET R == GetLlmConfiguration(S0, jar[c], now) IN
  /\ StoreCall("getLlmConfiguration", c, R, R.ret)
  /\ hist' = CarryHist(R.sessions)
  /\ UNCHANGED posts

CallClearLlm(c) ==
  LET R == ClearLlmConfiguration(S0, jar[c], now) IN
  /\ StoreCall("clearLlmConfiguration", c, R, HeldBefore(jar[c]))
  /\ hist' = [CarryHist(R.sessions) EXCEPT ![R.sid].llmConfig = <<>>]
  /\ UNCHANGED posts

\* a run of the setInterval callback, recorded: the body is the Map the run
\* found
CallSweep ==
  /\ sessions' = CleanupExpiredSessions(sessions, now)
  /\ hist' = CarryHist(sessions')
  /\ resp' = [NoResp EXCEPT !.op = "cleanupExpiredSessions",
                            !.body = <<[before |-> sessions]>>,
                            !.removed = DOMAIN sessions \ DOMAIN sessions']
  /\ UNCHANGED <<now, clockSteps, posts, nextId, jar, pending, call, apiVars>>

NextStore ==
  \/ \E c \in Clients : CallGetApi(c)
  \/ \E c \in Clients : CallSetApi(c)
  \/ \E c \in Clients : CallGetTime(c)
  \/ \E c \in Clients : CallClear(c)
  \/ \E c \in Clients : CallExtend(c)
  \/ \E c \in Clients : CallSetLlm(c)
  \/ \E c \in Clients : CallGetLlm(c)
  \/ \E c \in Clients : CallClearLlm(c)
  \/ Sweep
  \/ \E d \in ClockStepSizes : Tick(d)

SpecStore == Init /\ [][NextStore]_vars

\* two clients on one store: sets, gets, extends and clears of the upstream
\* record, the sweep and the clock
NextShared ==
  \/ \E c \in AllClients : CallGetApi(c)
  \/ \E c \in AllClients : CallSetApi(c)
  \/ \E c \in AllClients : CallExtend(c)
  \/ \E c \in AllClients : CallClear(c)
  \/ CallSweep
  \/ \E d \in ClockStepSizes : Tick(d)

SpecShared == Init /\ [][NextShared]_vars

\* the body of the n-th POST /api/config of a run: each request brings its own
\* token, and the fields that are set alternate
WriteBody(n) ==
  [snykApiToken |-> JStr(<<"tok" \o ToString(n)>>),
   groupId |-> IF n % 2 = 1 THEN JStr(<<"g1">>) ELSE JUndefined,
   orgId |-> IF n % 2 = 0 THEN JStr(<<"o1">>) ELSE JUndefined,
   apiVersion |-> IF n % 2 = 1 THEN JStr(<<"2024-01-01">>) ELSE JUndefined]

\* requests of one client that set the upstream configuration concurrently:
\* each suspends at the connectivity check, which succeeds
NextWrite ==
  \/ \E c \in Clients : GetConfig(c)
  \/ \E c \in Clients : PostConfigBegin(c, WriteBody(posts + 1))
  \/ \E req \in pending, result \in {r \in TestConnectionResults : r.success} :
       PostConfigFinish(req, result)
  \/ \E d \in ClockStepSizes : Tick(d)

SpecWrite == Init /\ [][NextWrite]_vars

\* cookie values of the client's own making: one the store never issued, and
\* every id it has issued so far
FORGED_ID == 0 - 1
CookieValues == {FORGED_ID} \cup (1..(nextId - 1))

\* the client replaces the cookie it holds by a value of its choice
TamperCookie(c) ==
  /\ ReceivePost
  /\ \E v \in CookieValues \ {jar[c]} : jar' = [jar EXCEPT ![c] = v]
  /\ resp' = NoResp
  /\ UNCHANGED <<now, clockSteps, sessions, nextId, pending, hist, call, apiVars>>

\* one client that may tamper with its cookie, on the store's methods
NextForge ==
  \/ \E c \in Clients : TamperCookie(c)
  \/ \E c \in Clients : CallGetApi(c)
  \/ \E c \in Clients : CallSetApi(c)
  \/ \E c \in Clients : CallClear(c)
  \/ CallSweep
  \/ \E d \in ClockStepSizes : Tick(d)

SpecForge == Init /\ [][NextForge]_vars

\* requests that set the upstream configuration, suspended at the connectivity
\* check, while the session is cleared, swept or left idle
NextRevoke ==
  \/ \E c \in Clients : GetConfig(c)
  \/ \E c \in Clients : PostConfigBegin(c, WriteBody(posts + 1))
  \/ \E req \in pending, result \in {r \in TestConnectionResults : r.success} :
       PostConfigFinish(req, result)
  \/ \E c \in Clients : ClearConfig(c)
  \/ Sweep
  \/ \E d \in ClockStepSizes : Tick(d)

SpecRevoke == Init /\ [][NextRevoke]_vars

\* two clients on one server: the first configures its upstream and fetches
\* audit logs, the second configures an LLM provider and chats, and either
\* asks for insights
NextTenants ==
  \/ \E c \in Clients : GetConfig(c)
  \/ \E c \in Clients : PostConfigBegin(c, WriteBody(2))
  \/ \E req \in pending, result \in {r \in TestConnectionResults : r.success} :
       PostConfigFinish(req, result)
  \/ \E c \in AllClients \ Clients,
        body \in {b \in DataLlmBodies : b.provider = JStr(STR_OPENAI)} :
       PostLlmConfig(c, body)
  \/ \E c \in Clients : GetAuditLogs(c)
  \/ \E c \in AllClients : GetInsights(c)
  \/ \E c \in AllClients \ Clients : PostChatBegin(c)
  \/ PostChatFinish

SpecTenants == Init /\ [][NextTenants]_vars

\* GET /api/debug/sessions
DebugSessions(c) ==
  LET R == DebugSessionsRoute(S0, jar[c], now) IN
  /\ Commit(c, R)
  /\ resp' = Response("GET /api/debug/sessions", c, jar[c], R)
  /\ hist' = CarryHist(R.sessions)
  /\ UNCHANGED <<now, clockSteps, posts, pending, call, apiVars>>

\* GET /api/debug/test-cookie
DebugTestCookie(c) ==
  LET R == DebugTestCookieRoute(S0, jar[c], now) IN
  /\ Commit(c, R)
  /\ resp' = Response("GET /api/debug/test-cookie", c, jar[c], R)
  /\ hist' = CarryHist(R.sessions)
  /\ UNCHANGED <<now, clockSteps, posts, pending, call, apiVars>>

\* a client that configures its upstream and its LLM provider and calls the
\* configuration and the debug routes
NextDebug ==
  \/ \E c \in Clients : GetConfig(c)
  \/ \E c \in Clients : PostConfigBegin(c, WriteBody(posts + 1))
  \/ \E req \in pending, result \in {r \in TestConnectionResults : r.success} :
       PostConfigFinish(req, result)
  \/ \E c \in Clients, body \in {b \in DataLlmBodies : b.provider = JStr(STR_OPENAI)} :
       PostLlmConfig(c, body)
  \/ \E c \in Clients : GetLlmConfig(c)
  \/ \E c \in Clients : DebugSessions(c)
  \/ \E c \in Clients : DebugTestCookie(c)
  \/ \E d \in ClockStepSizes : Tick(d)

SpecDebug == Init /\ [][NextDebug]_vars

\* the last instant of the runs in which the sweep timer is followed
Horizon == 80

\* time passes within an interval of the sweep timer, half an interval at once
Elapse ==
  /\ (now % CLEANUP_INTERVAL) + (CLEANUP_INTERVAL \div 2) < CLEANUP_INTERVAL
  /\ now + (CLEANUP_INTERVAL \div 2) <= Horizon
  /\ now' = now + (CLEANUP_INTERVAL \div 2)
  /\ resp' = NoResp
  /\ UNCHANGED <<clockSteps, posts, sessions, nextId, jar, pending, hist, call, apiVars>>

\* time passes to the next instant of setInterval(..., CLEANUP_INTERVAL) and
\* the timer runs cleanupExpiredSessions
TimerFires ==
  LET instant == now + CLEANUP_INTERVAL - (now % CLEANUP_INTERVAL) IN
  /\ instant <= Horizon
  /\ now' = instant
  /\ sessions' = CleanupExpiredSessions(sessions, instant)
  /\ hist' = CarryHist(sessions')
  /\ resp' = [NoResp EXCEPT !.op = "cleanupExpiredSessions",
                            !.body = <<[before |-> sessions]>>,
                            !.removed = DOMAIN sessions \ DOMAIN sessions']
  /\ UNCHANGED <<clockSteps, posts, nextId, jar, pending, call, apiVars>>

\* a client that sets and reads its configurations while the sweep timer runs
NextTimer ==
  \/ \E c \in AllClients \ Clients : CallGetApi(c)
  \/ \E c \in AllClients \ Clients : CallSetApi(c)
  \/ \E c \in AllClients \ Clients,
        body \in {b \in DataLlmBodies : b.provider = JStr(STR_OPENAI)} :
       PostLlmConfig(c, body)
  \/ Elapse
  \/ TimerFires

\* the sweep timer keeps firing
SpecTimerFair == Init /\ [][NextTimer]_vars /\ WF_vars(TimerFires)

(***************************************************************************)
(* Vocabulary of the properties.                                           *)
(***************************************************************************)
GetOps == {"GET /api/config", "GET /api/llm-config"}

KindOf(op) == IF op = "GET /api/config" THEN "snykConfig" ELSE "llmConfig"

\* the response body shows exactly the readable fields of payload
ReturnsPayload(r, kind, payload) ==
  /\ r.body # <<>>
  /\ IF kind = "snykConfig"
     THEN Omit(r.body[1], {"snykApiToken", "expiresInMinutes", "sessionId"})
            = Serialize(Omit(payload, {"snykApiToken", "expiresAt"}))
     ELSE Omit(r.body[1], {"configured"})
            = Serialize([provider |-> payload.provider, model |-> payload.model])

\* the last response is a get that resolved to the session its cookie names,
\* and that session's record of the kind was set and neither extended nor
\* cleared since
GetAfterSet ==
  /\ resp.op \in GetOps
  /\ resp.sids[1] = resp.cookieIn
  /\ hist[resp.cookieIn][KindOf(resp.op)] # <<>>
  /\ ~hist[resp.cookieIn][KindOf(resp.op)][1].extended

LastSet == hist[resp.cookieIn][KindOf(resp.op)][1]

\* C1 (as stated): after a set with TTL T at t0 and no later set, extend or
\* clear of the kind, a get by the same session at t returns the payload when
\* t - t0 < T and absent when t - t0 >= T, the instant t - t0 = T included.
C1_TtlBoundaryAsStated ==
  GetAfterSet =>
    /\ (now - LastSet.setAt < LastSet.ttl * MINUTE
          => ReturnsPayload(resp, KindOf(resp.op), LastSet.payload))
    /\ (now - LastSet.setAt >= LastSet.ttl * MINUTE => resp.body = <<>>)

\* C1 (amended): such a get, by a request that resolves to the same session,
\* returns the payload when t - t0 <= T and absent when t - t0 > T: at the
\* instant t - t0 = T the record is still live.
C1_TtlBoundary ==
  GetAfterSet =>
    /\ (now - LastSet.setAt <= LastSet.ttl * MINUTE
          => ReturnsPayload(resp, KindOf(resp.op), LastSet.payload))
    /\ (now - LastSet.setAt > LastSet.ttl * MINUTE => resp.body = <<>>)

C1_Witness ==
  /\ GetAfterSet
  /\ now - LastSet.setAt = LastSet.ttl * MINUTE
  /\ ReturnsPayload(resp, KindOf(resp.op), LastSet.payload)

C2_SetStep ==
  /\ (resp'.op = "POST /api/llm-config" /\ resp'.status = 200) =>
       LET sid == resp'.sids[1] IN
       sessions'[sid].snykConfig =
         (IF sid \in DOMAIN sessions THEN sessions[sid].snykConfig ELSE <<>>)
  /\ (resp'.op = "POST /api/config" /\ resp'.status = 200) =>
       LET sid == resp'.sids[1] IN
       sessions'[sid].llmConfig =
         (IF sid \in DOMAIN sessions THEN sessions[sid].llmConfig ELSE <<>>)

\* C2: setLlmConfiguration leaves the snykConfig of the session it writes to
\* (presence, payload, expiresAt) as it was, and setApiConfiguration leaves
\* that session's llmConfig as it was.
C2_SetIndependence == [][C2_SetStep]_vars

C2_Witness ==
  /\ resp.op = "POST /api/llm-config"
  /\ resp.status = 200
  /\ resp.sids[1] = resp.cookieIn
  /\ sessions[resp.sids[1]].snykConfig # <<>>

\* the record of the session an extend request resolves to, before the step
ExtendTarget == 
  IF resp'.sids[1] \in DOMAIN sessions /\ resp'.sids[1] = resp'.cookieIn
  THEN sessions[resp'.sids[1]].snykConfig
  ELSE <<>>

C3_ExtendStep ==
  (/\ resp'.op = "POST /api/config/extend"
   /\ (ExtendTarget = <<>> \/ now > ExtendTarget[1].expiresAt))
  => /\ resp'.status = 400
     /\ sessions'[resp'.sids[1]].snykConfig = ExtendTarget
     /\ GetApiConfiguration([sessions |-> sessions', nextId |-> nextId', out |-> <<>>],
                            resp'.sids[1], now').ret = <<>>

\* C3: extendConfiguration on a session whose upstream config is absent or
\* expired returns false (the endpoint answers 400), leaves the record and its
\* expiresAt as they were, and the next getApiConfiguration returns null.
C3_ExtendNoResurrect == [][C3_ExtendStep]_vars

C3_Witness ==
  /\ resp.op = "POST /api/config/extend"
  /\ resp.status = 400
  /\ resp.sids[1] = resp.cookieIn
  /\ sessions[resp.sids[1]].snykConfig # <<>>
  /\ now > sessions[resp.sids[1]].snykConfig[1].expiresAt

C4_ExtendStep ==
  (resp'.op = "POST /api/config/extend" /\ resp'.status = 200)
  => sessions'[resp'.sids[1]].snykConfig[1].expiresAt
       >= sessions[resp'.sids[1]].snykConfig[1].expiresAt

\* C4: a successful extendConfiguration pushes expiry forward: expiresAt after
\* the call is at least expiresAt before it, for every additionalMinutes.
C4_ExtendPushesForward == [][C4_ExtendStep]_vars

\* the step is a request that reached the store with the cookie of a session
\* idle for more than the timeout
IdleRequest ==
  /\ resp'.op # "none"
  /\ resp'.sids # <<>>
  /\ resp'.cookieIn \in DOMAIN sessions
  /\ now' - sessions[resp'.cookieIn].lastAccessed > SESSION_TIMEOUT

C5_IdleStep ==
  /\ IdleRequest =>
       /\ resp'.cookieIn \notin DOMAIN sessions'
       /\ \A i \in 1..Len(resp'.sids) :
            /\ resp'.sids[i] # resp'.cookieIn
            /\ resp'.sids[i] \notin DOMAIN sessions
       /\ resp'.out # <<>>
       /\ resp'.out[1] = <<"set", resp'.sids[1]>>
       /\ resp'.op \in GetOps => resp'.body = <<>>
       /\ \A id \in DOMAIN sessions' \ DOMAIN sessions :
            /\ (sessions'[id].snykConfig # <<>> => resp'.op = "POST /api/config")
            /\ (sessions'[id].llmConfig # <<>> => resp'.op = "POST /api/llm-config")
  /\ \A id \in 1..(nextId - 1) : id \notin DOMAIN sessions => id \notin DOMAIN sessions'

\* C5: a request that presents the id of a session last accessed more than 30
\* minutes ago has that session removed, resolves to a fresh id with no
\* configuration of the old session, and is issued a new cookie; a removed id
\* never names a session again.
C5_IdleExpiry == [][C5_IdleStep]_vars

C5_Witness ==
  /\ resp.op = "GET /api/config"
  /\ resp.cookieIn \in resp.removed
  /\ resp.sids[1] \in DOMAIN sessions

\* the sessions other than id are the same before and after the step
OthersUnchanged(id) ==
  /\ DOMAIN sessions' = DOMAIN sessions
  /\ \A x \in DOMAIN sessions \ {id} : sessions'[x] = sessions[x]

C6_LazyStep ==
  \A op \in GetOps :
    LET kind == KindOf(op)
        other == IF kind = "snykConfig" THEN "llmConfig" ELSE "snykConfig"
        sid == resp'.cookieIn
    IN (/\ resp'.op = op
        /\ sid \in DOMAIN sessions
        /\ now' - sessions[sid].lastAccessed <= SESSION_TIMEOUT
        /\ sessions[sid][kind] # <<>>
        /\ now' > sessions[sid][kind][1].expiresAt)
       => /\ resp'.body = <<>>
          /\ resp'.sids = <<sid>>
          /\ OthersUnchanged(sid)
          /\ sessions'[sid][kind] = <<>>
          /\ sessions'[sid][other] = sessions[sid][other]
          /\ sessions'[sid].id = sessions[sid].id
          /\ sessions'[sid].createdAt = sessions[sid].createdAt

\* C6: a get that finds its kind's record expired deletes that record alone
\* and returns null: the session stays in the map under the same id and the
\* other kind's record is as it was.
C6_LazyExpiryLocal == [][C6_LazyStep]_vars

C6_Witness ==
  /\ resp.op = "GET /api/config"
  /\ <<resp.cookieIn, "snykConfig">> \in resp.dropped
  /\ sessions[resp.cookieIn].llmConfig # <<>>
  /\ resp.body = <<>>

C7_AccessStep ==
  /\ resp'.op \in GetOps =>
       \A id \in DOMAIN sessions', kind \in Kinds :
         sessions'[id][kind] # <<>> =>
           /\ id \in DOMAIN sessions
           /\ sessions[id][kind] = sessions'[id][kind]
  /\ (/\ resp'.op \in GetOps
      /\ resp'.body # <<>>)
     => /\ hist'[resp'.sids[1]][KindOf(resp'.op)] # <<>>
        /\ now' <= hist'[resp'.sids[1]][KindOf(resp'.op)][1].deadline

FollowUpGet == GetConfigRoute(S0, jar[resp.client], now)

\* C8: after POST /api/config succeeds, a GET /api/config sent with the cookie
\* the response leaves in the client returns the stored groupId, orgId and
\* apiVersion with expiresInMinutes, whatever cookie the client had before.
C8_StoreThenRead ==
  (resp.op = "POST /api/config" /\ resp.status = 200)
  => /\ FollowUpGet.body # <<>>
     /\ Omit(FollowUpGet.body[1], {"sessionId", "expiresInMinutes"})
          = Omit(resp.body[1], {"sessionId", "expiresInMinutes"})
     /\ "expiresInMinutes" \in DOMAIN FollowUpGet.body[1]
     /\ FollowUpGet.body[1].expiresInMinutes # JNull

C9_FailStep ==
  (resp'.op = "POST /api/config" /\ resp'.status = 400)
  => /\ sessions' = sessions
     /\ nextId' = nextId
     /\ jar' = jar
     /\ resp'.sids = <<>>
     /\ resp'.out = <<>>
     /\ \A c \in AllClients :
          GetConfigRoute([sessions |-> sessions', nextId |-> nextId', out |-> <<>>],
                         jar'[c], now').body
            = GetConfigRoute(S0, jar[c], now).body

\* C9: POST /api/config whose connectivity check fails answers 400 and creates
\* or changes no session and no configuration: what GET /api/config returns
\* (null, or the configuration stored earlier) is what it returned before.
C9_FailedPostStoresNothing == [][C9_FailStep]_vars

C9_Witness ==
  /\ resp.op = "POST /api/config"
  /\ resp.status = 400
  /\ resp.body = ErrorBody("Failed to connect to Snyk API")
  /\ resp.cookieIn \in DOMAIN sessions
  /\ sessions[resp.cookieIn].snykConfig # <<>>

\* every token and API key a request may submit, as submitted and as stored
Secrets ==
  {v \in {b.snykApiToken : b \in ApiBodies}
         \cup {b.apiKey : b \in LlmBodies}
         \cup {Trim(b.apiKey) : b \in {x \in LlmBodies : IsString(x.apiKey)}} : Truthy(v)}

ConfigOps == {"GET /api/config", "POST /api/config"}
LlmConfigOps == {"GET /api/llm-config", "POST /api/llm-config"}

\* C10: every configuration GET /api/config and POST /api/config return
\* carries snykApiToken "***", no field of a response of the four
\* configuration endpoints is a token or an API key, and the LLM endpoints'
\* responses have no apiKey field.
C10_SecretsMasked ==
  (resp.op \in ConfigOps \cup LlmConfigOps /\ resp.body # <<>>)
  => /\ \A f \in DOMAIN resp.body[1] : resp.body[1][f] \notin Secrets
     /\ (resp.op \in ConfigOps /\ resp.status = 200) => resp.body[1].snykApiToken = MASK
     /\ resp.op \in LlmConfigOps => "apiKey" \notin DOMAIN resp.body[1]

C10_Witness ==
  /\ resp.op = "GET /api/config"
  /\ resp.body # <<>>
  /\ resp.sids[1] \in DOMAIN sessions
  /\ sessions[resp.sids[1]].snykConfig # <<>>
  /\ sessions[resp.sids[1]].snykConfig[1].snykApiToken = TOKEN_A

(***************************************************************************)
(* The LLM configuration endpoints.                                        *)
(***************************************************************************)
\* what GET /api/llm-config shows of a submitted body
LlmView(provider, model) ==
  [provider |-> provider, model |-> model, configured |-> JBool(TRUE)]

C11_PostStep ==
  \A c \in Clients, body \in LlmBodies :
    PostLlmConfig(c, body) =>
      IF LlmBodyValid(body)
      THEN /\ resp'.status = 200
           /\ resp'.body = <<LlmView(Trim(body.provider), Trim(body.model))>>
           /\ GetLlmConfigRoute([sessions |-> sessions', nextId |-> nextId', out |-> <<>>],
                                 jar'[c], now').body
                = <<LlmView(Trim(body.provider), Trim(body.model))>>
           /\ hist'[resp'.sids[1]].llmConfig[1].payload.provider = Trim(body.provider)
           /\ hist'[resp'.sids[1]].llmConfig[1].payload.model = Trim(body.model)
      ELSE /\ resp'.status = 400
           /\ resp'.sids = <<>>
           /\ resp'.out = <<>>
           /\ sessions' = sessions
           /\ nextId' = nextId
           /\ jar' = jar
           /\ hist' = hist

C11_GetStep ==
  (/\ resp'.op = "GET /api/llm-config"
   /\ GetAfterSet'
   /\ now' - LastSet'.setAt <= LastSet'.ttl * MINUTE)
  => resp'.body = <<LlmView(LastSet'.payload.provider, LastSet'.payload.model)>>

\* C11: POST /api/llm-config with non-empty string provider, model and apiKey
\* answers 200 and stores the trimmed fields, and a GET /api/llm-config that
\* resolves to the same session, at once or at any time up to the TTL, returns
\* exactly {provider, model, configured: true} with the trimmed provider and
\* model; a POST whose required field is missing or not a string answers 400
\* and changes no session, no cookie and no stored configuration.
C11_LlmConfigRoundTrip == [][C11_PostStep /\ C11_GetStep]_vars

C11_Witness ==
  /\ resp.op = "GET /api/llm-config"
  /\ GetAfterSet
  /\ now > LastSet.setAt
  /\ resp.body = <<LlmView(JStr(<<"openai">>), JStr(<<"gpt">>))>>
  /\ sessions[resp.cookieIn].llmConfig[1].apiKey = KEY_1

(***************************************************************************)
(* The provider router.                                                    *)
(***************************************************************************)
\* the string is empty or holds blanks only
WhitespaceOnly(s) == \A i \in 1..Len(s) : s[i] = " "

\* null, or a required field empty or whitespace-only
Unconfigured(config) ==
  \/ config = <<>>
  \/ WhitespaceOnly(config[1].provider)
  \/ WhitespaceOnly(config[1].model)
  \/ WhitespaceOnly(config[1].apiKey)

\* getProvider has run in the call in progress
Routed == call.op # "none" /\ call.adapter # "none"

\* C12: for a null configuration, or one whose provider, model or apiKey is
\* empty or whitespace-only, getProvider returns the no-op adapter: generateText
\* returns the fixed "AI is not configured" message whatever the messages and
\* options, and no request to a provider is built or sent.
C12_UnconfiguredNoOp ==
  (Routed /\ Unconfigured(call.config))
  => /\ call.adapter = "noop"
     /\ call.phase = "done"
     /\ call.requests = 0
     /\ call.request = <<>>
     /\ call.outcome = <<>>
     /\ call.op = "generateText" => call.result = <<JText(UNCONFIGURED_MESSAGE)>>

C12_Witness ==
  /\ call.op = "generateText"
  /\ call.phase = "done"
  /\ call.config # <<>>
  /\ call.config[1].provider = STR_GEMINI
  /\ call.config[1].model = <<" ", " ">>
  /\ Len(call.input.messages) = MaxMessages
  /\ call.result = <<JText(UNCONFIGURED_MESSAGE)>>
  /\ call.requests = 0

\* the two names are equal up to the case of their letters
EqualsIgnoreCase(a, b) ==
  /\ Len(a) = Len(b)
  /\ \A i \in 1..Len(a) :
       \/ a[i] = b[i]
       \/ \E k \in 1..Len(UPPER) : {a[i], b[i]} = {UPPER[k], LOWER[k]}

\* the adapter family the provider name stands for
FamilyOf(name) ==
  IF \E n \in {STR_GEMINI, STR_GOOGLE, STR_GOOGLE_GEMINI} : EqualsIgnoreCase(name, n)
  THEN "gemini"
  ELSE IF \E n \in {STR_OPENAI, STR_CUSTOM} : EqualsIgnoreCase(name, n)
       THEN "openai"
       ELSE IF \E n \in {STR_ANTHROPIC, STR_CLAUDE} : EqualsIgnoreCase(name, n)
            THEN "anthropic"
            ELSE "noop"

\* C13: with non-blank model and apiKey, getProvider matches the provider name
\* case-insensitively: gemini, google and google gemini give the Gemini
\* adapter, openai and custom the OpenAI-compatible adapter, anthropic and
\* claude the Anthropic adapter, and every other provider string (a name with a
\* leading blank included) the no-op adapter; it always returns an adapter.
C13_Dispatch ==
  /\ call.adapter \in {"none", "noop", "gemini", "openai", "anthropic"}
  /\ (/\ Routed
      /\ call.config # <<>>
      /\ ~WhitespaceOnly(call.config[1].model)
      /\ ~WhitespaceOnly(call.config[1].apiKey))
     => call.adapter = FamilyOf(call.config[1].provider)

C13_Witness ==
  /\ Routed
  /\ call.adapter = "gemini"
  /\ call.config[1].provider = <<"G", "o", "o", "g", "l", "e", " ", "G", "e", "m", "i", "n", "i">>
  /\ call.request # <<>>

(***************************************************************************)
(* The orchestrator.                                                       *)
(***************************************************************************)
\* the call in progress is the orchestrator operation op and has returned
Returned(op) == call.op = op /\ call.phase = "done"

\* what generateText of the adapter settled to in the call in progress
Settled == AdapterResult(call.adapter, call.outcome[1])

\* the provider answered the call in progress with a text
ProviderText == call.outcome # <<>> /\ Settled.ok

\* the provider's part of the call in progress failed
ProviderFailed == call.outcome # <<>> /\ ~Settled.ok

C14_Items == call.result[1][2]

\* C14: analyzeAuditLogs never throws and always returns a sequence of strings:
\* the parsed array when the provider's text parses as a JSON array, the
\* one-element array of the raw text when parsing fails or gives no array, and
\* a one-element array holding an error string when the provider fails.
C14_InsightsAreStrings ==
  Returned("analyzeAuditLogs")
  => /\ call.result[1][1] = "array"
     /\ \A i \in 1..Len(C14_Items) : C14_Items[i][1] = "string"
     /\ ProviderText =>
          IF JsonParse(Settled.text)[1] = "array"
          THEN C14_Items = JsonParse(Settled.text)[2]
          ELSE C14_Items = <<JText(Settled.text)>>
     /\ ProviderFailed =>
          /\ Len(C14_Items) = 1
          /\ C14_Items[1] = JText("Analysis error: " \o Settled.message)

\* a record created no earlier than 24 hours before t: one dated ahead of the
\* clock is, one whose created no Date can read is not
CreatedWithinLastDay(log, t) ==
  \E created \in {t - DAY + d : d \in 0..(DAY + 1)} : log.created = <<created>>

NoneRecent(auditLogs, t) ==
  \A i \in 1..Len(auditLogs) : ~CreatedWithinLastDay(auditLogs[i], t)

\* C15: when no input record has created within the last 24 hours (no record
\* dated now - 24 h or later; the empty input included), generateExecutiveSummary
\* returns the fixed "No recent audit logs found in the last 24 hours..."
\* message without calling getProvider or generateText and without a request,
\* whatever the LLM configuration; with a record in the window it goes on to
\* the provider.
C15_SummaryShortCircuit ==
  call.op = "generateExecutiveSummary"
  => IF NoneRecent(call.input.auditLogs, now)
     THEN /\ call.phase = "done"
          /\ call.result = <<JText(NO_RECENT_LOGS)>>
          /\ call.adapter = "none"
          /\ call.generateTextCalls = 0
          /\ call.requests = 0
          /\ call.request = <<>>
     ELSE call.adapter # "none" /\ call.generateTextCalls = 1

C15_Witness ==
  /\ Returned("generateExecutiveSummary")
  /\ Len(call.input.auditLogs) = MaxLogs
  /\ NoneRecent(call.input.auditLogs, now)
  /\ \E i \in 1..MaxLogs : call.input.auditLogs[i].created = <<now - DAY - 1>>
  /\ call.config # <<>>
  /\ GetProvider(call.config) = "openai"
  /\ call.result = <<JText(NO_RECENT_LOGS)>>
  /\ call.generateTextCalls = 0

\* C16: no orchestrator operation propagates an exception: for every input and
\* every adapter outcome (text, no-content failure, HTTP error, rejected
\* request) generateExecutiveSummary and chatWithAI resolve to a string and
\* analyzeAuditLogs resolves to an array, and a failure of the adapter becomes
\* a descriptive string that embeds the error's message.
C16_NoExceptionPropagates ==
  (call.op \in Orchestrators /\ call.phase = "done")
  => /\ call.result # <<>>
     /\ call.result[1][1] = (IF call.op = "analyzeAuditLogs" THEN "array" ELSE "string")
     /\ ProviderFailed =>
          LET described == IF call.op = "analyzeAuditLogs"
                           THEN call.result[1][2][1]
                           ELSE call.result[1]
          IN /\ Settled.message # ""
             /\ described[1] = "string"
             /\ \E before \in {"Summary generation error: ", "Analysis error: ",
                               "I encountered an error: "},
                   after \in {"", ". Please try again."} :
                  described[2] = before \o Settled.message \o after

C16_Witness ==
  /\ Returned("chatWithAI")
  /\ call.adapter = "anthropic"
  /\ call.outcome # <<>>
  /\ call.outcome[1].kind = "response"
  /\ call.outcome[1].status = 500
  /\ call.result = <<JText("I encountered an error: Anthropic API error: 500. Please try again.")>>

(***************************************************************************)
(* The adapters.                                                           *)
(***************************************************************************)
\* C17: every adapter tolerates an empty message sequence: called with zero
\* messages, the request it sends carries exactly one user message with empty
\* content rather than an empty message list.
C17_EmptyMessagesSubstituted ==
  (call.op = "generateText" /\ call.input.messages = <<>> /\ call.request # <<>>)
  => call.request[1].messages = <<[role |-> "user", content |-> ""]>>

\* C18: single attempt: a call of an adapter's generateText sends at most one
\* request to the provider and an orchestrator operation calls generateText
\* at most once; when the provider fails the call ends after that one request.
C18_SingleAttempt ==
  /\ call.requests <= 1
  /\ call.generateTextCalls <= 1
  /\ call.requests <= call.generateTextCalls
  /\ call.phase = "awaiting" => call.requests = 1
  /\ (call.phase = "done" /\ ProviderFailed) => call.requests = 1

C18_Witness ==
  /\ Returned("generateExecutiveSummary")
  /\ call.adapter = "openai"
  /\ call.outcome = <<[kind |-> "reject", message |-> FETCH_FAILED]>>
  /\ call.requests = 1
  /\ call.generateTextCalls = 1
  /\ call.result = <<JText("Summary generation error: " \o FETCH_FAILED)>>

\* the display name of the adapter in its error messages
DisplayName(adapter) == IF adapter = "openai" THEN "OpenAI" ELSE "Anthropic"

\* the call in progress is a direct generateText call that has settled
Generated == call.op = "generateText" /\ call.phase = "done" /\ call.outcome # <<>>

\* the message under error.message of a response body that parsed to an
\* object, <<>> when there is none
BodyErrorMessage(res) ==
  IF res.json[1] = "object" /\ res.json[2].error # <<>>
     /\ res.json[2].error[1].message[1] = "string"
     /\ res.json[2].error[1].message[2] # ""
  THEN <<res.json[2].error[1].message[2]>>
  ELSE <<>>

\* C19: on a response with a non-success status, generateText of the
\* OpenAI-compatible and Anthropic adapters always fails and never returns a
\* string; the error's message is the body's error.message when the body
\* parses and has one, otherwise "<provider> API error: <status>", and is
\* never empty.
C19_HttpErrorContract ==
  (/\ Generated
   /\ call.adapter \in {"openai", "anthropic"}
   /\ call.outcome[1].kind = "response"
   /\ ~call.outcome[1].ok)
  => LET res == call.outcome[1] IN
     /\ call.result[1][1] = "throw"
     /\ call.result[1][2] # ""
     /\ call.result[1][2] =
          (IF BodyErrorMessage(res) # <<>>
           THEN BodyErrorMessage(res)[1]
           ELSE DisplayName(call.adapter) \o " API error: " \o ToString(res.status))

C19_Witness ==
  /\ Generated
  /\ call.adapter = "openai"
  /\ call.outcome[1].kind = "response"
  /\ call.outcome[1].status = 401
  /\ call.outcome[1].json = <<"object", [error |-> <<[message |-> JText("")]>>]>>
  /\ call.result = <<<<"throw", "OpenAI API error: 401">>>>

\* the text spans a success response carries, in the order the adapter looks
\* at them: the first choice's content, the first text block, text and the
\* first candidate's first part
TextSpans(adapter, res) ==
  CASE adapter = "openai" -> <<OpenAiContent(res.json[2])>>
    [] adapter = "anthropic" -> <<AnthropicText(res.json[2])>>
    [] adapter = "gemini" -> <<res.text, GeminiCandidateText(res)>>

\* present: a span holds a non-empty text; empty: the only texts are empty
\* strings; absent: no span holds a string
ContentClass(adapter, res) ==
  LET spans == TextSpans(adapter, res) IN
  IF \E i \in 1..Len(spans) : spans[i][1] = "string" /\ spans[i][2] # "" THEN "present"
  ELSE IF \E i \in 1..Len(spans) : spans[i][1] = "string" THEN "empty"
  ELSE "absent"

\* a response the adapter reads as a success with a body it can look into
SuccessResponse(adapter, res) ==
  /\ res.kind = "response"
  /\ adapter # "gemini" => (res.ok /\ res.json[1] = "object")

NO_CONTENT_MESSAGES ==
  {"No text in Gemini response", "No content in OpenAI response", "No text in Anthropic response"}

\* C20: on a success response generateText returns the first extracted text
\* when the response carries one and fails with a no-content error exactly
\* when it carries no extractable text, and the three adapters treat the same
\* response content (present, empty string, absent) alike: what one adapter
\* does with a content class, return or fail, every adapter does.
C20_OutputContract ==
  (Generated /\ SuccessResponse(call.adapter, call.outcome[1]))
  => LET class == ContentClass(call.adapter, call.outcome[1])
         spans == TextSpans(call.adapter, call.outcome[1])
     IN /\ class = "present" =>
             \E i \in 1..Len(spans) : call.result = <<spans[i]>>
        /\ class = "absent" =>
             call.result[1][1] = "throw" /\ call.result[1][2] \in NO_CONTENT_MESSAGES
        /\ call.result[1][1] = "throw" => call.result[1][2] \in NO_CONTENT_MESSAGES
        /\ \A other \in {"gemini", "openai", "anthropic"} :
             \A res \in Outcomes(other) :
               (SuccessResponse(other, res) /\ ContentClass(other, res) = class)
               => AdapterResult(other, res).ok = (call.result[1][1] = "string")

(***************************************************************************)
(* Properties of the data endpoints.                                       *)
(***************************************************************************)
\* the last data response answers a request its schema does not pass
ValidationFailed ==
  \/ /\ dresp.op = "GET /api/audit-logs"
     /\ ~SizeAccepted(AuditLogsSize(dresp.request))
  \/ /\ dresp.op = "GET /api/audit-logs/export"
     /\ ~SizeAccepted(ExportSize(dresp.request))
  \/ /\ dresp.op = "POST /api/chat"
     /\ ~ChatBodyAccepted(dresp.request)

\* the request was answered without a store call, an upstream request, a
\* storage call or a generateText call
AnsweredBeforeIo ==
  /\ dresp.sids = <<>>
  /\ dresp.out = <<>>
  /\ dresp.calls = NoCalls

\* a request that fails validation is answered before any I/O, whatever the status
RejectedBeforeIo == ValidationFailed => AnsweredBeforeIo

\* C21: a GET /api/audit-logs or /api/audit-logs/export request whose query
\* violates auditLogFilterSchema (a size outside 1..100) and a POST /api/chat
\* whose body violates chatMessageSchema (an empty message) are answered with a
\* 4xx status, without a session-store access, an upstream, storage or LLM call.
C21_ValidationRejectedWith4xx ==
  ValidationFailed => dresp.status \in 400..499 /\ AnsweredBeforeIo

IsSummary(body) ==
  /\ body # <<>>
  /\ DOMAIN body[1] = {"summary"}
  /\ body[1].summary[1] = "string"

SummaryAnswered == dresp.op = "GET /api/executive-summary"

\* the upstream request of the last executive summary failed
SummaryUpstreamFailed ==
  SummaryAnswered /\ dresp.calls.upstream = 1 /\ ~dresp.request.upstream.ok

\* the provider's part of the last executive summary failed
SummaryProviderFailed ==
  /\ SummaryAnswered /\ dresp.calls.llm = 1
  /\ ~AdapterResult("openai", dresp.request.answer[1]).ok

\* C22 as stated: GET /api/executive-summary always answers 200 with
\* {summary: string}, the failed upstream call included.
C22_AlwaysSummaryAsStated ==
  SummaryAnswered => dresp.status = 200 /\ IsSummary(dresp.body)

\* C22: GET /api/executive-summary answers 200 with {summary: string} when
\* there is no upstream config, when neither an organization nor a group id is
\* configured, when the upstream returns no items and when the LLM provider
\* fails; when the upstream call fails it answers 500 with {error: message}.
C22_SummaryOrUpstreamError ==
  SummaryAnswered
  => IF SummaryUpstreamFailed
     THEN dresp.status = 500 /\ dresp.body = ErrorBody(dresp.request.upstream.message)
     ELSE dresp.status = 200 /\ IsSummary(dresp.body)

C22_Witness ==
  /\ SummaryProviderFailed
  /\ dresp.status = 200
  /\ dresp.body = Summary("Summary generation error: " \o FETCH_FAILED)

\* a body POST /api/llm-config takes whose provider, trimmed, names no adapter
LenientBody(body) ==
  /\ LlmBodyValid(body)
  /\ FamilyOf(Trim(body.provider)[2]) = "noop"
  /\ ~WhitespaceOnly(body.model[2])
  /\ ~WhitespaceOnly(body.apiKey[2])

\* the last data request was served with a stored configuration whose provider
\* names no adapter, and its handler got as far as generateText
ServedLeniently ==
  /\ dresp.llmConfig # <<>>
  /\ FamilyOf(dresp.llmConfig[1].provider) = "noop"
  /\ dresp.calls.generateText = 1

\* the body a summary, insight or chat response has when the text the
\* orchestrator got is text
BodyOfText(text) ==
  CASE dresp.op = "GET /api/executive-summary" -> dresp.body = Summary(text)
    [] dresp.op = "GET /api/insights" ->
         dresp.body = <<[insights |-> <<"array", <<JText(text)>>>>]>>
    [] dresp.op = "POST /api/chat" -> dresp.body[1].response = JText(text)

\* C30: POST /api/llm-config with an unrecognized or whitespace-only provider
\* and non-empty model and apiKey is accepted and stored (200, configured:
\* true), and a later summary, insight or chat request of that session that
\* reaches the provider selection answers 200 with the fixed not-configured
\* message, without a request to a provider.
C30_LenientProviderNames ==
  /\ \A c \in Clients, body \in DataLlmBodies :
       LenientBody(body)
       => LET R == PostLlmConfigRoute(S0, jar[c], body, now) IN
          /\ R.status = 200
          /\ R.body[1].configured = JBool(TRUE)
          /\ R.sessions[R.sids[1]].llmConfig # <<>>
          /\ R.sessions[R.sids[1]].llmConfig[1].provider = Trim(body.provider)
  /\ ServedLeniently
     => /\ dresp.status = 200
        /\ dresp.calls.llm = 0
        /\ BodyOfText(UNCONFIGURED_MESSAGE)

C30_Witness ==
  /\ ServedLeniently
  /\ dresp.op = "POST /api/chat"
  /\ dresp.llmConfig[1].provider = STR_MISTRAL
  /\ dresp.body[1].response = JText(UNCONFIGURED_MESSAGE)
  /\ \E id \in DOMAIN sessions :
       /\ sessions[id].llmConfig # <<>>
       /\ sessions[id].llmConfig[1].provider = JStr(STR_MISTRAL)

(***************************************************************************)
(* Properties of the store called directly.                                *)
(***************************************************************************)
\* the session a request with the cookie resolves to without a new one being
\* made: <<the session>>, or <<>> when the id is unknown or idle too long
LiveSession(cookieIn) ==
  IF cookieIn # NoCookie /\ cookieIn \in DOMAIN sessions
     /\ now - sessions[cookieIn].lastAccessed <= SESSION_TIMEOUT
  THEN <<sessions[cookieIn]>>
  ELSE <<>>

\* the record of the kind a request with the cookie finds, <<>> when none
RecordOf(cookieIn, kind) ==
  IF LiveSession(cookieIn) = <<>> THEN <<>> ELSE LiveSession(cookieIn)[1][kind]

\* max(0, floor(remaining / one minute)), remaining in ticks
WholeMinutesLeft(remaining) ==
  IF remaining < 0 THEN 0
  ELSE CHOOSE m \in 0..remaining : m * MINUTE <= remaining /\ remaining < (m + 1) * MINUTE

\* C24 as stated: getTimeUntilExpiration returns max(0, floor((expiresAt -
\* now) / 60000)) for a live upstream config and null whenever
\* getApiConfiguration at the same instant would return absent, be the record
\* missing or expired.
C24_NullWheneverAbsentAsStated ==
  [][\A c \in Clients :
       CallGetTime(c)
       => IF GetApiConfiguration(S0, jar[c], now).ret = <<>>
          THEN resp'.body = <<>>
          ELSE resp'.body =
                 MinutesBody(<<WholeMinutesLeft(RecordOf(jar[c], "snykConfig")[1].expiresAt - now)>>)]_vars

\* C24: getTimeUntilExpiration returns max(0, floor((expiresAt - now) / 60000))
\* for an upstream record the session holds, never a negative number: that is
\* 0 for a record that has expired and is still held, for which
\* getApiConfiguration at the same instant returns absent; it returns null
\* exactly when the session holds no upstream record.
C24_MinutesLeftOfHeldRecord ==
  [][\A c \in Clients :
       CallGetTime(c)
       => LET rec == RecordOf(jar[c], "snykConfig") IN
          /\ rec = <<>> <=> resp'.body = <<>>
          /\ rec # <<>> =>
               /\ resp'.body = MinutesBody(<<WholeMinutesLeft(rec[1].expiresAt - now)>>)
               /\ resp'.body[1].minutes >= 0
               /\ now > rec[1].expiresAt => resp'.body[1].minutes = 0
          /\ GetApiConfiguration(S0, jar[c], now).ret # <<>> => resp'.body # <<>>]_vars

\* getTimeUntilExpiration has answered 0 for an expired record the session
\* still holds
C24_Witness ==
  /\ resp.op = "getTimeUntilExpiration"
  /\ resp.body = MinutesBody(<<0>>)
  /\ sessions[resp.sids[1]].snykConfig # <<>>
  /\ now > sessions[resp.sids[1]].snykConfig[1].expiresAt

StoreGetOps == {"getApiConfiguration", "getLlmConfiguration"}

KindOfCall(op) == IF op = "getApiConfiguration" THEN "snykConfig" ELSE "llmConfig"

\* the last call was a get
GetCalled == resp.op \in StoreGetOps

\* the last set of the kind of the last get in the session the get resolved to
LastSetOf == hist[resp.sids[1]][KindOfCall(resp.op)]

\* C25: a get of a live configuration returns exactly the fields of the most
\* recent set of that kind in that session, with the same values and without
\* an expiresAt field; nothing of a payload set before it remains.
C25_SetGetRoundTrip ==
  GetCalled
  => LET held == sessions[resp.sids[1]][KindOfCall(resp.op)] IN
     /\ held # <<>> <=> resp.body # <<>>
     /\ resp.body # <<>> =>
          /\ LastSetOf # <<>>
          /\ resp.body[1].config = LastSetOf[1].payload
          /\ "expiresAt" \notin DOMAIN resp.body[1].config
          /\ resp.body[1].sessionId = resp.sids[1]
          /\ now <= LastSetOf[1].deadline

\* a get has returned the second payload set, whose fields differ from those
\* of the first
C25_Witness ==
  /\ resp.op = "getApiConfiguration"
  /\ resp.body # <<>>
  /\ LastSetOf[1].replaced # <<>>
  /\ DOMAIN LastSetOf[1].replaced[1] # DOMAIN LastSetOf[1].payload
  /\ resp.body[1].config = LastSetOf[1].payload

\* the store as a later request finds it
StoreNow == [sessions |-> sessions, nextId |-> nextId, out |-> <<>>]

\* C28: after clearConfiguration the session the request resolved to is gone
\* from the map, the cookie is cleared, and a request that carries the old
\* session id, at once or later, gets null from getApiConfiguration and from
\* getLlmConfiguration.
C28_ClearRemovesSession ==
  resp.op = "clearConfiguration"
  => LET old == resp.sids[1] IN
     /\ old \notin DOMAIN sessions
     /\ jar[resp.client] = NoCookie
     /\ \A d \in {0} \cup ClockStepSizes :
          /\ GetApiConfiguration(StoreNow, old, now + d).ret = <<>>
          /\ GetLlmConfiguration(StoreNow, old, now + d).ret = <<>>

\* a clear has removed a session that held a record of each kind
C28_Witness ==
  /\ resp.op = "clearConfiguration"
  /\ resp.sids[1] = resp.cookieIn
  /\ resp.body[1].snykConfig # <<>>
  /\ resp.body[1].llmConfig # <<>>
  /\ resp.removed = {resp.cookieIn}

\* the session a clear resolved to held an LLM record
ClearedWithLlmHeld(c) ==
  /\ CallClear(c)
  /\ Held(jar[c], "llmConfig") # <<>>

\* what getLlmConfiguration returns to the client right after the step, with
\* the cookie the step left it
LlmAfterStep(c) ==
  GetLlmConfiguration([sessions |-> sessions', nextId |-> nextId', out |-> <<>>],
                      jar'[c], now').ret

\* clearLlmConfiguration on a session the request's cookie names leaves the
\* entry and its snykConfig as they were
ClearLlmKeepsUpstream(c) ==
  (CallClearLlm(c) /\ LiveSession(jar[c]) # <<>>)
  => /\ DOMAIN sessions' = DOMAIN sessions
     /\ sessions'[jar[c]].snykConfig = sessions[jar[c]].snykConfig
     /\ sessions'[jar[c]].llmConfig = <<>>
     /\ sessions'[jar[c]].id = sessions[jar[c]].id
     /\ sessions'[jar[c]].createdAt = sessions[jar[c]].createdAt
     /\ jar'[c] = jar[c]

\* C29 as stated: clearLlmConfiguration leaves the session entry and its
\* snykConfig unchanged, and clearing the upstream configuration leaves the
\* same client's LLM configuration retrievable.
C29_ClearIndependenceAsStated ==
  [][\A c \in Clients :
       /\ ClearLlmKeepsUpstream(c)
       /\ ClearedWithLlmHeld(c) => LlmAfterStep(c) # <<>>]_vars

\* C29: clearLlmConfiguration leaves the session entry and its snykConfig
\* (presence, payload, expiresAt) unchanged; clearConfiguration removes the
\* whole session and the cookie, so the client's LLM configuration is not
\* retrievable after it.
C29_ClearLlmAloneIsIndependent ==
  [][\A c \in Clients :
       /\ ClearLlmKeepsUpstream(c)
       /\ ClearedWithLlmHeld(c)
          => /\ LlmAfterStep(c) = <<>>
             /\ jar[c] \notin DOMAIN sessions'
             /\ jar'[c] = NoCookie]_vars

\* clearLlmConfiguration has cleared the LLM record of a session that holds an
\* upstream record
C29_Witness ==
  /\ resp.op = "clearLlmConfiguration"
  /\ resp.sids[1] = resp.cookieIn
  /\ resp.body[1].llmConfig # <<>>
  /\ resp.body[1].snykConfig # <<>>
  /\ sessions[resp.sids[1]].llmConfig = <<>>
  /\ <<Omit(sessions[resp.sids[1]].snykConfig[1], {"expiresAt"})>> = resp.body[1].snykConfig

(***************************************************************************)
(* Properties of the store shared by two clients.                          *)
(***************************************************************************)
SweepRan == resp.op = "cleanupExpiredSessions"

\* the Map the last run of the sweep found
BeforeSweep == resp.body[1].before

\* C23: a run of cleanupExpiredSessions removes every session with now -
\* lastAccessed > 30 minutes and none with now - lastAccessed <= 30 minutes,
\* leaves the sessions it keeps as they were, and leaves no session idle beyond
\* the timeout: no entry is passed over because entries are deleted during the
\* traversal.
C23_SweepRemovesExactlyIdle ==
  SweepRan
  => /\ DOMAIN sessions =
          {id \in DOMAIN BeforeSweep : now - BeforeSweep[id].lastAccessed <= SESSION_TIMEOUT}
     /\ \A id \in DOMAIN sessions :
          /\ sessions[id] = BeforeSweep[id]
          /\ now - sessions[id].lastAccessed <= SESSION_TIMEOUT
     /\ resp.removed =
          {id \in DOMAIN BeforeSweep : now - BeforeSweep[id].lastAccessed > SESSION_TIMEOUT}

\* a run has removed two sessions that followed one another in the Map
C23_Witness ==
  /\ SweepRan
  /\ \E a, b \in resp.removed :
       /\ a < b
       /\ \A x \in DOMAIN BeforeSweep : ~(a < x /\ x < b)

\* the session the last call resolved to
Resolved == resp.sids[1]

\* C27: a configuration a get returns to a request that resolved to session B
\* is the one last stored by a request that resolved to B: it is a payload of
\* the client that holds B, and no payload stored in another session A, under
\* every interleaving of set, get, extend, clear, idle expiry and sweep.
C27_SessionIsolation ==
  (resp.op = "getApiConfiguration" /\ resp.body # <<>>)
  => /\ hist[Resolved].snykConfig # <<>>
     /\ resp.body[1].config = hist[Resolved].snykConfig[1].payload
     /\ resp.body[1].config \in ApiPayloadsOf(resp.client)
     /\ \A other \in AllClients \ {resp.client} :
          resp.body[1].config \notin ApiPayloadsOf(other)
     /\ jar[resp.client] = Resolved

\* a get has returned its own session's configuration while another session
\* holds another client's
C27_Witness ==
  /\ resp.op = "getApiConfiguration"
  /\ resp.body # <<>>
  /\ \E A \in DOMAIN sessions \ {Resolved} :
       /\ sessions[A].snykConfig # <<>>
       /\ Omit(sessions[A].snykConfig[1], {"expiresAt"}) # resp.body[1].config

(***************************************************************************)
(* Properties of concurrent sets.                                          *)
(***************************************************************************)
\* the record POST /api/config stores for the body at the instant t
StoredForm(body, t) ==
  [snykApiToken |-> body.snykApiToken,
   groupId |-> body.groupId,
   orgId |-> body.orgId,
   apiVersion |-> IF Truthy(body.apiVersion) THEN body.apiVersion ELSE DEFAULT_API_VERSION,
   expiresAt |-> t + ROUTE_TTL_MINUTES * MINUTE]

\* the set of a suspended request whose cookie names a live session runs
SetOfLiveSession(req) ==
  /\ req \in pending
  /\ LiveSession(req.cookieIn) # <<>>
  /\ \E result \in TestConnectionResults : result.success /\ PostConfigFinish(req, result)

\* C26: when requests for the same session id set the upstream configuration
\* concurrently, each set that runs leaves, in whole, the payload of its own
\* request as the session's record, whatever the other requests stored before
\* and whatever is still in flight: after all complete the record is that of
\* the set that ran last, never a mixture, and the session entry is neither
\* duplicated nor lost.
C26_LastWriteWins ==
  [][\A req \in pending :
       SetOfLiveSession(req)
       => /\ DOMAIN sessions' = DOMAIN sessions
          /\ sessions'[req.cookieIn].snykConfig = <<StoredForm(req.body, now)>>
          /\ sessions'[req.cookieIn].llmConfig = sessions[req.cookieIn].llmConfig
          /\ \A id \in DOMAIN sessions \ {req.cookieIn} : sessions'[id] = sessions[id]
          /\ jar'[req.client] = jar[req.client]]_vars

\* both requests have completed, the one that arrived first ran its set last,
\* and the session holds its payload
C26_Witness ==
  /\ posts = 2
  /\ pending = {}
  /\ clockSteps = 0
  /\ resp.op = "POST /api/config"
  /\ resp.status = 200
  /\ resp.sids[1] = resp.cookieIn
  /\ DOMAIN sessions = {resp.cookieIn}
  /\ sessions[resp.cookieIn].snykConfig = <<StoredForm(WriteBody(1), now)>>

(***************************************************************************)
(* Properties of the executive summary's statistics.                       *)
(***************************************************************************)
\* generateExecutiveSummary has sent its prompt to the provider
SummaryAsked ==
  /\ call.op = "generateExecutiveSummary"
  /\ call.request # <<>>

\* the records of the call created within the last 24 hours
RecentLogsOfCall == SelectSeq(call.input.auditLogs, LAMBDA log : IsRecent(log, now))

RECURSIVE SumOfCounts(_)
SumOfCounts(entries) ==
  IF entries = <<>> THEN 0 ELSE Head(entries).count + SumOfCounts(Tail(entries))

\* the statistics in the prompt are those of the records logs: their number,
\* their users, a histogram that counts each of them once, and top events
\* that are at most five and leave out no event type more frequent than a
\* listed one
StatisticsCover(logs) ==
  LET histogram == EventSummary(logs)
      top == TopEvents(histogram)
      users == {UserOf(logs[i]) : i \in 1..Len(logs)}
  IN /\ call.request[1].messages[1].content = SummaryPrompt(Len(logs), Cardinality(users), top)
     /\ {histogram[i].event : i \in 1..Len(histogram)} = {logs[i].event : i \in 1..Len(logs)}
     /\ \A i \in 1..Len(histogram) :
          histogram[i].count = Cardinality({j \in 1..Len(logs) : logs[j].event = histogram[i].event})
     /\ SumOfCounts(histogram) = Len(logs)
     /\ Len(top) <= TOP_EVENTS
     /\ \A i \in 1..Len(top) : \E j \in 1..Len(histogram) : top[i] = histogram[j]
     /\ \A j \in 1..Len(histogram) :
          (\A i \in 1..Len(top) : top[i] # histogram[j])
          => \A i \in 1..Len(top) : top[i].count >= histogram[j].count

\* C31 as stated: the statistics of the executive summary's prompt cover every
\* record created within the last 24 hours (event count, histogram sum,
\* distinct users, top five events).
C31_StatisticsCoverEveryRecentAsStated ==
  SummaryAsked => StatisticsCover(RecentLogsOfCall)

\* C31: the statistics of the executive summary's prompt cover the first 200
\* records created within the last 24 hours, in the order of the collection:
\* the event count in the prompt is their number, the histogram counts sum to
\* it, the distinct users are theirs (user_email, else user_id, else
\* "Unknown"), and the top events are at most five with no omitted event type
\* more frequent than a listed one.
C31_StatisticsCoverFirstRecent ==
  SummaryAsked => StatisticsCover(Slice(RecentLogsOfCall, SUMMARY_LIMIT))

\* a prompt was sent for a collection with more recent records than the limit
\* whose first 200 hold more than five event types, not all equally frequent
C31_Witness ==
  /\ SummaryAsked
  /\ call.phase = "awaiting"
  /\ Len(RecentLogsOfCall) > SUMMARY_LIMIT
  /\ Len(call.input.auditLogs) > Len(RecentLogsOfCall)
  /\ LET histogram == EventSummary(Slice(RecentLogsOfCall, SUMMARY_LIMIT)) IN
       /\ Len(histogram) > TOP_EVENTS
       /\ histogram[Len(histogram)].count > histogram[2].count

(***************************************************************************)
(* Properties of the Anthropic adapter's role mapping.                     *)
(***************************************************************************)
\* generateText of the Anthropic adapter was called directly and has sent its
\* request
AnthropicAsked ==
  /\ call.op = "generateText"
  /\ call.adapter = "anthropic"
  /\ call.request # <<>>

\* the request's messages are the non-system messages of the input, in their
\* order, with their content, under the roles user and assistant
NonSystemKept ==
  LET input == call.input.messages
      kept == SelectSeq(input, LAMBDA m : m.role # "system")
      sent == call.request[1].messages
  IN /\ Len(sent) = Len(kept)
     /\ \A i \in 1..Len(sent) :
          /\ sent[i].role \in {"user", "assistant"}
          /\ sent[i].role = kept[i].role
          /\ sent[i].content = kept[i].content

\* every system message with a content is the request's system field
SystemCarried ==
  \A i \in 1..Len(call.input.messages) :
    LET m == call.input.messages[i] IN
    (m.role = "system" /\ m.content # "") => call.request[1].system = <<m.content>>

\* the last system message with a content, if it is the last system message
\* of all, is the request's system field
LastSystemCarried ==
  LET input == call.input.messages
      systems == SelectSeq(input, LAMBDA m : m.role = "system")
  IN call.request[1].system =
       IF systems # <<>> /\ systems[Len(systems)].content # ""
       THEN <<systems[Len(systems)].content>>
       ELSE <<>>

\* C32: for every input message sequence the Anthropic request carries only
\* the roles user and assistant in messages, the non-system messages keep their
\* relative order and content, and the content of every system message is
\* carried in the dedicated system field.
C32_AnthropicLosesNothing ==
  AnthropicAsked => (NonSystemKept /\ SystemCarried)

\* the part of C32 the adapter keeps: the non-system messages are sent as they
\* came, and the system field is the content of the last system message
C32_NonSystemKeptLastSystemSent ==
  AnthropicAsked => (NonSystemKept /\ LastSystemCarried)

\* a request went out for an input with a system message between two others
C32_Witness ==
  /\ AnthropicAsked
  /\ Len(call.input.messages) >= 2
  /\ \E i \in 1..Len(call.input.messages) : call.input.messages[i].role = "system"
  /\ \E i \in 1..Len(call.input.messages) : call.input.messages[i].role = "assistant"

(***************************************************************************)
(* Properties of the session ids.                                          *)
(***************************************************************************)
\* the methods of the store that resolve the request's session
StoreMethods ==
  { "getApiConfiguration", "setApiConfiguration", "getTimeUntilExpiration",
    "clearConfiguration", "extendConfiguration", "setLlmConfiguration",
    "getLlmConfiguration", "clearLlmConfiguration" }

\* C33: getOrCreateSessionId never records a session under an identifier the
\* client supplied: a call whose cookie value is not a key of the map (never
\* issued, cleared or purged) resolves to the id generateSessionId produces
\* next, adds no other key, and every key of the map is an id that
\* generateSessionId has produced.
C33_NoSessionFixation ==
  [][/\ DOMAIN sessions' \subseteq 1..(nextId' - 1)
     /\ (resp'.op \in StoreMethods /\ resp'.cookieIn \notin DOMAIN sessions)
        => /\ \A i \in 1..Len(resp'.sids) : resp'.sids[i] = nextId
           /\ resp'.cookieIn \notin DOMAIN sessions'
           /\ DOMAIN sessions' \ DOMAIN sessions \subseteq {nextId}
           /\ nextId' = nextId + 1]_vars

\* a set was called with a cookie value the store never issued, and its
\* record is held under a generated id
C33_Witness ==
  /\ resp.op = "setApiConfiguration"
  /\ resp.cookieIn = FORGED_ID
  /\ resp.sids[1] \in DOMAIN sessions
  /\ sessions[resp.sids[1]].snykConfig # <<>>
  /\ jar[resp.client] = resp.sids[1]

(***************************************************************************)
(* Properties of the session a request resolves to.                        *)
(***************************************************************************)
\* the Set-Cookie headers of a response that carry a session id
CookiesIssued(out) == {i \in 1..Len(out) : out[i][1] = "set"}

\* C34: handling one HTTP request allocates at most one new session entry and
\* issues at most one session cookie, and every store operation called within
\* the request resolves to the same session id.
C34_OneSessionPerRequest ==
  [][resp'.op \in (ConfigOps \cup LlmConfigOps)
     => /\ Cardinality(DOMAIN sessions' \ DOMAIN sessions) <= 1
        /\ nextId' <= nextId + 1
        /\ Cardinality(CookiesIssued(resp'.out)) <= 1
        /\ \A i, j \in 1..Len(resp'.sids) : resp'.sids[i] = resp'.sids[j]]_vars

\* the part of C34 the handlers keep: a request whose cookie names a live
\* session allocates no session, issues no session cookie and resolves every
\* store operation to that session
C34_LiveSessionIsKept ==
  [][(resp'.op \in (ConfigOps \cup LlmConfigOps) /\ LiveSession(resp'.cookieIn) # <<>>)
     => /\ nextId' = nextId
        /\ CookiesIssued(resp'.out) = {}
        /\ \A i \in 1..Len(resp'.sids) : resp'.sids[i] = resp'.cookieIn]_vars

(***************************************************************************)
(* Properties of revocation.                                               *)
(***************************************************************************)
\* the ids the store has issued and revoked: removed from the map by a clear,
\* by the sweep or on access after the idle timeout, or still in the map
\* with the idle timeout passed
Revoked ==
  {id \in 1..(nextId - 1) :
     id \notin DOMAIN sessions \/ IdleExpired(sessions[id], now)}

\* a request carrying the id reads no upstream configuration from the store
ReadsNothing(id) == GetApiConfiguration(S0, id, now).ret = <<>>

\* C35: once a session id has been removed (by clearConfiguration, idle
\* expiry or the sweep) it stays revoked: no later request and no request that
\* was in flight when it was removed reads a configuration under it or writes
\* one under it; a POST /api/config suspended at the connectivity check when
\* the clear ran stores under another id, and a client holding the cleared id
\* reads nothing.
C35_RevocationIsPermanent ==
  [][\A id \in Revoked :
       /\ id \in Revoked'
       /\ ReadsNothing(id)'
       /\ id \in DOMAIN sessions' => sessions'[id] = sessions[id]
       /\ resp'.cookieIn = id => \A i \in 1..Len(resp'.sids) : resp'.sids[i] # id]_vars

\* a POST /api/config that was suspended when its session was cleared has
\* stored its configuration, and the cleared id is not a key of the map
C35_Witness ==
  /\ resp.op = "POST /api/config"
  /\ resp.status = 200
  /\ clockSteps = 0
  /\ resp.cookieIn # NoCookie
  /\ resp.cookieIn \notin DOMAIN sessions
  /\ resp.sids[1] \in DOMAIN sessions
  /\ sessions[resp.sids[1]].snykConfig # <<>>

(***************************************************************************)
(* Properties of the chat transcript.                                      *)
(***************************************************************************)
\* a POST /api/chat turn has completed in this step
ChatTurnCompleted ==
  /\ dresp'.op = "POST /api/chat"
  /\ dresp'.status = 200
  /\ \E req \in chatting : chatting' = chatting \ {req}

\* the chat session the completed turn belongs to
ChatIdOfTurn == dresp'.body[1].sessionId[2]

\* the two messages of the completed turn
MessagesOfTurn ==
  <<[role |-> "user", content |-> dresp'.request.message[2]],
    [role |-> "assistant", content |-> dresp'.body[1].response[2]]>>

\* C36: each completed POST /api/chat turn appends exactly the user message
\* followed by the assistant message to the stored transcript of its chat
\* session, so that after two overlapping turns on the same chat sessionId the
\* stored transcript contains the messages of both.
C36_TurnAppendsToStoredTranscript ==
  [][ChatTurnCompleted
     => mem'.chatSessions[ChatIdOfTurn] = mem.chatSessions[ChatIdOfTurn] \o MessagesOfTurn]_vars

\* the part of C36 the handler keeps: a turn that completes while no other
\* turn of its chat session is in flight or has completed since it began
\* appends its two messages, and every completed turn leaves its two messages
\* at the end of the stored transcript
C36_TurnAloneAppends ==
  [][ChatTurnCompleted
     => /\ Len(mem'.chatSessions[ChatIdOfTurn]) >= 2
        /\ SubSeq(mem'.chatSessions[ChatIdOfTurn],
                  Len(mem'.chatSessions[ChatIdOfTurn]) - 1,
                  Len(mem'.chatSessions[ChatIdOfTurn])) = MessagesOfTurn
        /\ \A id \in DOMAIN mem.chatSessions \ {ChatIdOfTurn} :
             mem'.chatSessions[id] = mem.chatSessions[id]
        /\ (\E req \in chatting :
              /\ req \notin chatting'
              /\ req.turn.currentMessages = mem.chatSessions[ChatIdOfTurn])
           => mem'.chatSessions[ChatIdOfTurn]
                = mem.chatSessions[ChatIdOfTurn] \o MessagesOfTurn]_vars

(***************************************************************************)
(* Properties of the fetched audit logs.                                   *)
(***************************************************************************)
\* the sessions whose upstream credentials fetched the stored records
OwnersOfStored == {mem.auditLogs[i].owner : i \in 1..Len(mem.auditLogs)}

\* GET /api/insights has built its prompt from the stored records for the
\* session the request resolved to
InsightsPrompted ==
  /\ dresp'.op = "GET /api/insights"
  /\ dresp' # dresp
  /\ dresp'.calls.generateText = 1

\* C37: audit-log records fetched with one session's upstream credentials are
\* never placed in the prompt or response of POST /api/chat or GET
\* /api/insights handled for a different session.
C37_FetchedDataStaysInSession ==
  [][/\ InsightsPrompted => OwnersOfStored \subseteq {dresp'.sids[1]}
     /\ \A req \in chatting' \ chatting :
          req.turn.auditLogs # <<>> => OwnersOfStored \subseteq {req.turn.store.sid}]_vars

(***************************************************************************)
(* Properties of the responses with respect to the stored secrets.         *)
(***************************************************************************)
\* the upstream tokens and the LLM API keys the sessions hold
HeldSecrets ==
  {sessions[id].snykConfig[1].snykApiToken :
     id \in {x \in DOMAIN sessions : sessions[x].snykConfig # <<>>}}
  \cup {sessions[id].llmConfig[1].apiKey :
          id \in {x \in DOMAIN sessions : sessions[x].llmConfig # <<>>}}

\* the values of a getDebugInfo() object
DebugValues(info) ==
  {info.totalSessions}
  \cup UNION {{info.sessions[i][f] : f \in DOMAIN info.sessions[i]} : i \in 1..Len(info.sessions)}

\* the values at every depth of the body of the last response
BodyValues ==
  IF resp.body = <<>> THEN {}
  ELSE IF resp.op = "GET /api/debug/sessions" THEN DebugValues(resp.body[1])
  ELSE IF resp.op = "GET /api/debug/test-cookie"
  THEN {resp.body[1].existingCookies}
       \cup DebugValues(resp.body[1].sessionDebug)
       \cup (IF resp.body[1].sessionResult = <<>> THEN {}
             ELSE LET result == resp.body[1].sessionResult[1] IN
                  {JId(result.sessionId)} \cup {result.config[f] : f \in DOMAIN result.config})
  ELSE {resp.body[1][f] : f \in DOMAIN resp.body[1]}

\* C38: for every route, the debug routes /api/debug/sessions and
\* /api/debug/test-cookie included, the response body never contains the
\* clear-text snykApiToken or LLM apiKey held in any session.
C38_NoStoredSecretInAnyBody == BodyValues \cap HeldSecrets = {}

\* the part of C38 that holds: the configuration routes and
\* /api/debug/sessions disclose no stored secret
C38_NoStoredSecretOutsideTestCookie ==
  resp.op # "GET /api/debug/test-cookie" => BodyValues \cap HeldSecrets = {}

(***************************************************************************)
(* Properties of the sweep timer.                                          *)
(***************************************************************************)
\* the session ids and the instants of last access the purge is followed for:
\* those the timer can still reach before the horizon
PurgedIds == 1..2
PurgedInstants ==
  {i \in 0..(Horizon - SESSION_TIMEOUT - CLEANUP_INTERVAL) : i % (CLEANUP_INTERVAL \div 2) = 0}

\* the session is stored and was last accessed at the instant
IdleSince(id, instant) ==
  /\ id \in DOMAIN sessions
  /\ sessions[id].lastAccessed = instant

\* every stored session was accessed within the last idle timeout plus sweep
\* interval
StoredWereAccessedLately ==
  \A id \in DOMAIN sessions :
    now - sessions[id].lastAccessed <= SESSION_TIMEOUT + CLEANUP_INTERVAL

\* C39: with the sweep timer firing, every session that is not accessed again
\* is eventually removed from the map, together with its upstream and LLM
\* records, and the stored sessions are always among those accessed within
\* the last idle timeout plus sweep interval.
C39_IdleSessionsArePurged ==
  /\ []StoredWereAccessedLately
  /\ \A id \in PurgedIds, instant \in PurgedInstants :
       IdleSince(id, instant) ~> ~IdleSince(id, instant)

\* the timer has removed a session that held an upstream and an LLM record
\* and had not been accessed for longer than the idle timeout
C39_Witness ==
  /\ resp.op = "cleanupExpiredSessions"
  /\ \E id \in resp.removed :
       /\ resp.body[1].before[id].snykConfig # <<>>
       /\ resp.body[1].before[id].llmConfig # <<>>
       /\ now - resp.body[1].before[id].lastAccessed > SESSION_TIMEOUT

====
